---- MODULE Spec2Model ----
(***************************************************************************)
(* State-machine model of the acquisition pipeline of src/src/scrap.py:    *)
(*   - RealtimeHotScraper.fetch_realtime_top50 / fetch_and_save and the    *)
(*     cache file they read and write (SpecRealtime);                      *)
(*   - WeiboHotScraper.fetch_page, the retry loop (SpecFetch);             *)
(*   - WeiboHotScraper.scrape_range / scrape_date (SpecRange).             *)
(* Time is counted in minutes.  Python's None is the empty option <<>>,    *)
(* a present value x is <<x>>.                                             *)
(***************************************************************************)
EXTENDS Integers, Sequences, FiniteSets, TLC

(* ------------------------------ bounds --------------------------------- *)
\* latest clock value (minutes after the start of the run)
MaxNow == 1
\* number of successive realtime calls in one run
MaxCalls == 2
\* how many rows / entries beyond TopN a page or a cache record may hold
MaxExtra == 1
\* largest max_retries a WeiboHotScraper is configured with
MaxRetries == 3
\* largest max_retries a RealtimeHotScraper is configured with
MaxRtRetries == 2
\* number of days of the modelled calendar: day MaxDay stands for 9999-12-31,
\* the last date datetime can represent
MaxDay == 4
\* the days save_data is called for directly
MaxSaveDay == 2
\* longest entry list handed to save_data directly
MaxEntries == 2
\* most table rows and most links of an enumerated realtime page
MaxRows == 3
MaxLinks == 2
\* highest rank and most entries of an enumerated historical page
MaxRank == 3
MaxRaw == 3
\* most <a> elements and most div.rounded-lg containers of a historical page
MaxAnchorTags == 2
MaxContainers == 1
\* most pieces of one data fragment's text
MaxPieces == 2
\* most writes of the cache file by other processes
MaxWrites == 1

(* ------------------------- program constants --------------------------- *)
TopN == 50
FreshMinutes == 60
DayMinutes == 1440
MinTableRows == 20
MinLinkLen == 2
MaxLinkLen == 100
MinBodyLen == 100
MinAnchors == 10
MinRealtimeLen == 5000

(* ------------------------------ helpers -------------------------------- *)
None == <<>>
Some(x) == <<x>>

Min(a, b) == IF a < b THEN a ELSE b

\* Python slice s[:n]
Take(s, n) == SubSeq(s, 1, Min(n, Len(s)))

RECURSIVE Pow2(_)
Pow2(n) == IF n = 0 THEN 1 ELSE 2 * Pow2(n - 1)

Entry(r, t) == [rank |-> r, title |-> t]

\* a title: an identity, its length in characters and its number of digits
Title(n) == [id |-> n, len |-> 4, digits |-> 0]
EmptyTitle == [id |-> 0, len |-> 0, digits |-> 0]

Titles(items) == {items[i].title : i \in 1..Len(items)}

(* ---------------- parse_realtime_page (scrap.py 1252-1366) --------------- *)
\* A page is [rows, links]: the <tr> elements of the ranking table and the
\* texts of the topic-search links, both in document order.
Row(ok_td, skip_cls, has_a, t) == [td02 |-> ok_td, skip |-> skip_cls, a |-> has_a, title |-> t]
GoodRow(t) == Row(TRUE, FALSE, TRUE, t)

Indices(seq) == [i \in 1..Len(seq) |-> i]

\* lines 1288-1313: a row is kept when it has a td-02 cell, no header/ad class,
\* a link and a non-empty title; rank_counter numbers the kept rows
RowKept(tr) == tr.td02 /\ ~tr.skip /\ tr.a /\ tr.title # EmptyTitle

ScanRows(rows) ==
    LET kept == SelectSeq(rows, RowKept)
    IN [i \in 1..Len(kept) |-> Entry(i, kept[i].title)]

\* lines 1320-1333, the recovery pass: a link text is appended when it is not
\* empty, not yet seen (in the table or in an earlier link) and 2..100
\* characters long, with rank len(hot_items)+1; the loop breaks at 50 items
ScanLinks(links, hot_items) ==
    LET Fresh(j) == /\ links[j] # EmptyTitle
                    /\ links[j] \notin Titles(hot_items)
                    /\ \A i \in 1..(j - 1) : links[i] # links[j]
                    /\ links[j].len >= MinLinkLen
                    /\ links[j].len <= MaxLinkLen
        picked == SelectSeq(Indices(links), Fresh)
        room   == IF Len(hot_items) >= TopN THEN 1 ELSE TopN - Len(hot_items)
        taken  == Take(picked, room)
    IN hot_items \o [k \in 1..Len(taken) |-> Entry(Len(hot_items) + k, links[taken[k]])]

\* line 1337: list.sort by rank, which is stable: item i lands behind the items
\* of a lower rank and the earlier items of the same rank
SortByRank(items) ==
    LET n == Len(items)
        Pos(i) == 1 + Cardinality({j \in 1..n : \/ items[j].rank < items[i].rank
                                                \/ items[j].rank = items[i].rank /\ j < i})
    IN IF \A i \in 1..(n - 1) : items[i].rank <= items[i + 1].rank
       THEN items
       ELSE [k \in 1..n |-> items[CHOOSE i \in 1..n : Pos(i) = k]]

\* lines 1340-1353 keeping the last item of a title in place of the first
CleanItems_keep_last(items) ==
    LET Kept(j) == /\ ~(3 * items[j].title.digits > items[j].title.len)
                   /\ \A i \in (j + 1)..Len(items) : items[i].title # items[j].title
        picked == SelectSeq(Indices(items), Kept)
    IN [k \in 1..Len(picked) |-> items[picked[k]]]
\* lines 1340-1353: an item is kept unless more than a third of its title is
\* digits or an earlier item has the same title
CleanItems(items) ==
    LET Kept(j) == /\ ~(3 * items[j].title.digits > items[j].title.len)
                   /\ \A i \in 1..(j - 1) : items[i].title # items[j].title
        picked == SelectSeq(Indices(items), Kept)
    IN [k \in 1..Len(picked) |-> items[picked[k]]]

\* lines 1356-1357: ranks 1..N in list order
Renumber(items) == [idx \in 1..Len(items) |-> Entry(idx, items[idx].title)]

parse_realtime_page(page) ==
    LET table == ScanRows(page.rows)
        all   == IF Len(table) < MinTableRows THEN ScanLinks(page.links, table) ELSE table
    IN Renumber(CleanItems(SortByRank(all)))

\* pages the live site may serve
PageOf(n) == [rows |-> [i \in 1..n |-> GoodRow(Title(i))], links |-> <<>>]
DigitTitle == [id |-> 900, len |-> 4, digits |-> 4]
ShortTitle == [id |-> 901, len |-> 1, digits |-> 0]
MixedPage ==
    [rows  |-> << GoodRow(Title(1)), GoodRow(Title(1)), GoodRow(DigitTitle),
                  Row(FALSE, FALSE, TRUE, Title(2)), Row(TRUE, TRUE, TRUE, Title(3)),
                  GoodRow(EmptyTitle) >>,
     links |-> << Title(4), Title(1), ShortTitle, EmptyTitle >>]
JunkPage == [rows |-> << GoodRow(DigitTitle) >>, links |-> <<>>]
RealtimePages == {PageOf(0), JunkPage, MixedPage, PageOf(TopN), PageOf(TopN + MaxExtra)}
\* parse_realtime_page on these pages, computed once
ParsedPage == [page \in RealtimePages |-> parse_realtime_page(page)]

(* --------------------------- the cache file ---------------------------- *)
\* kind: "absent" (no file), "corrupt" (not JSON) or "record";
\* tsKind: "none" (no timestamp key), "bad" (not ISO) or "iso" (ts, in minutes);
\* hasData: the record has a data key; isList: its value is a list (data),
\* otherwise it is a non-empty JSON object
AbsentFile  == [kind |-> "absent",  tsKind |-> "none", ts |-> 0, hasData |-> FALSE,
                isList |-> TRUE, count |-> 0, data |-> <<>>]
CorruptFile == [kind |-> "corrupt", tsKind |-> "none", ts |-> 0, hasData |-> FALSE,
                isList |-> TRUE, count |-> 0, data |-> <<>>]
Record(k, t, d) == [kind |-> "record", tsKind |-> k, ts |-> t, hasData |-> TRUE,
                    isList |-> TRUE, count |-> Len(d), data |-> d]
NoDataRecord == [kind |-> "record", tsKind |-> "iso", ts |-> 0, hasData |-> FALSE,
                 isList |-> TRUE, count |-> 0, data |-> <<>>]
ObjectRecord(k, t) == [kind |-> "record", tsKind |-> k, ts |-> t, hasData |-> TRUE,
                       isList |-> FALSE, count |-> 1, data |-> <<>>]

\* entries of an earlier acquisition
OldEntries(n) == [i \in 1..n |-> Entry(i, Title(100 + i))]

\* load_from_file with a record older than a day treated as expired
load_from_file_expiring(file, readable, clock) ==
    IF file.kind = "absent" THEN None
    ELSE IF ~readable \/ file.kind = "corrupt" THEN None
    ELSE IF ~file.hasData \/ (file.isList /\ file.data = <<>>) THEN None
    ELSE IF file.tsKind = "bad" THEN None
    ELSE IF file.tsKind = "iso" /\ clock - file.ts > DayMinutes THEN None
    ELSE Some([isList |-> file.isList, items |-> file.data])

\* load_from_file passing over a timestamp it cannot parse
load_from_file_any_stamp(file, readable, clock) ==
    IF file.kind = "absent" THEN None
    ELSE IF ~readable \/ file.kind = "corrupt" THEN None
    ELSE IF ~file.hasData \/ (file.isList /\ file.data = <<>>) THEN None
    ELSE Some([isList |-> file.isList, items |-> file.data])

\* load_from_file: None, or the value of the record's data key (a list or an
\* object); the age it computes from the clock is only logged
load_from_file(file, readable, clock) ==
    IF file.kind = "absent" THEN None
    ELSE IF ~readable \/ file.kind = "corrupt" THEN None
    ELSE IF ~file.hasData \/ (file.isList /\ file.data = <<>>) THEN None
    ELSE IF file.tsKind = "bad" THEN None
    ELSE Some([isList |-> file.isList, items |-> file.data])

\* save_to_file: the file afterwards and the returned flag.  io: "ok"; "denied"
\* (os.makedirs or open raises: always so for a path without a directory part,
\* as os.makedirs("") raises); "partial" (the dump raises after open truncated
\* the file)
save_to_file(file, data, io, clock) ==
    IF io = "denied" THEN [file |-> file, ok |-> FALSE]
    ELSE IF io = "partial" THEN [file |-> CorruptFile, ok |-> FALSE]
    ELSE [file |-> Record("iso", clock, data), ok |-> TRUE]

(* ------------------------------ state ---------------------------------- *)
VARIABLES
    \* environment and configuration
    now,            \* the clock, in minutes
    cacheFile,      \* content of the file at the cache path
    max_retries,    \* self.max_retries
    \* one call of fetch_realtime_top50 / fetch_and_save
    calls,          \* calls started so far
    pc,             \* position in fetch_realtime_top50
    op,             \* the operation called
    use_cache,      \* its use_cache argument
    cached_data,    \* the local cached_data
    url_idx,        \* fetch_realtime_page: index into urls_to_try
    rt_attempt,     \* fetch_realtime_page: attempt of the inner loop
    rt_requests,    \* HTTP requests issued by the call
    is_streamlit,   \* 'streamlit' in sys.modules when the browser strategy ran
    tmp_file,       \* the temporary result file: "none", "exists", "removed"
    child,          \* how the child process of the call ended, "none" when none ran
    result,         \* the list fetch_realtime_top50 returned
    fas_ret,        \* what fetch_and_save returned
    \* history of the call
    source,         \* the step that produced result
    trace,          \* the steps the call has run, in order
    fileAtCall,     \* cacheFile when the call started
    save_ok,        \* what save_to_file returned, when it was called
    age_seen,       \* the age the freshness check computed, when it did
    read_failed,    \* a read of the cache file failed during the call
    data_rec,       \* the file content cached_data was loaded from, None when nothing was
    meta_rec,       \* the file content whose timestamp the freshness check used, or None
    \* one call of WeiboHotScraper.fetch_page
    fp_pc,          \* position in fetch_page: "idle", "loop", "done"
    attempt,        \* the loop variable of line 145
    fp_requests,    \* requests issued by the call
    fp_sleeps,      \* the backoff pauses of the call, in seconds, in order
    fp_log,         \* what each attempt of the call ended with, in order
    fp_result,      \* the page fetch_page returned, or None
    fp_resp,        \* what the latest request of the call ended with
    \* one call of WeiboHotScraper.scrape_range
    delay,          \* self.delay, in seconds
    sr_pc,          \* position in scrape_range
    start_date,     \* its arguments: a day number, or 0 for a malformed date
    end_date,
    date_list,      \* the local date_list
    idx,            \* the loop variable i of line 691
    stats,          \* the dictionary scrape_range returns
    files,          \* the snapshot file of each date under output_dir
    processed,      \* the dates scrape_date was called for, in order
    sr_sleeps,      \* the pauses of scrape_date and scrape_range, in order
    outcomes,       \* how each processed date ended, in order
    sd_run,         \* the latest scrape_date call: its steps, what it returned, what it saved
    \* direct calls of WeiboHotScraper.save_data
    sv_date,        \* the date argument of the latest call, 0 for a malformed one
    sv_data,        \* its data argument
    sv_ret,         \* what it returned, None before the first call
    sv_before,      \* the files as they were when it was made
    sv_same,        \* it repeated the arguments of a call that had just succeeded
    \* one application of RealtimeHotScraper.parse_realtime_page
    rp_html,        \* the page it is given
    rp_items,       \* the list it returned, None before it has run
    \* the entries of one historical page through parse_page and _process_items
    hp_raw,         \* the entries as the page carries them, in document order
    hp_items,       \* what parse_page returned for them, None before it has run
    hp_processed,   \* what _process_items made of that, None before it has run
    \* one application of WeiboHotScraper._extract_number
    en_text,        \* the text it is given
    en_out,         \* what it returned, in hundredths, None before it has run
    \* one call of RealtimeHotScraper.fetch_realtime_page
    frp_pc,         \* position in fetch_realtime_page: "idle", "loop", "done"
    frp_url,        \* the loop variable url_idx of line 1169
    frp_attempt,    \* the loop variable attempt of line 1170
    frp_log,        \* for each request made: its endpoint and whether its page was returned
    frp_resp,       \* what the latest request ended with
    frp_result,     \* the page the call returned, or None
    \* one call of WeiboHotScraper.scrape_date on a page given element by element
    hd_date,        \* its date argument
    hd_fetched,     \* what fetch_page returned to it: a page, or None
    hd_parse,       \* what parse_page did: the primary entries, the backup's, the list returned
    hd_out,         \* how the call ended: "none", "absent", "raised", "saved", "save_failed"
    \* one data fragment through the field classification of both strategies
    cf_text,        \* the text of the fragment, piece by piece
    cf_primary,     \* the field and value parse_page assigns, None before it has run
    cf_backup,      \* the field and value _parse_page_backup assigns, None before it has run
    \* other processes sharing the cache file
    writes          \* the writes of the cache file other acquisition calls have made

rtVars == << now, cacheFile, max_retries, calls, pc, op, use_cache, cached_data,
             url_idx, rt_attempt, rt_requests, is_streamlit, tmp_file, child, result,
             fas_ret, source, trace, fileAtCall, save_ok, age_seen, read_failed,
             data_rec, meta_rec >>
fpVars == << fp_pc, attempt, fp_requests, fp_sleeps, fp_log, fp_result, fp_resp >>
srVars == << delay, sr_pc, start_date, end_date, date_list, idx, stats, files, processed,
             sr_sleeps, outcomes, sd_run >>
svVars == << sv_date, sv_data, sv_ret, sv_before, sv_same >>
rpVars == << rp_html, rp_items >>
hpVars == << hp_raw, hp_items, hp_processed >>
enVars == << en_text, en_out >>
pgVars == << frp_pc, frp_url, frp_attempt, frp_log, frp_resp, frp_result >>
hdVars == << hd_date, hd_fetched, hd_parse, hd_out >>
cfVars == << cf_text, cf_primary, cf_backup >>
otherPure == << pgVars, hdVars, cfVars, writes >>
pureVars == << rpVars, hpVars, enVars, otherPure >>
vars == << rtVars, fpVars, srVars, svVars, pureVars >>

\* urls_to_try: summary page, hot-search page, front page
urls_to_try == << "summary", "hot_search", "front" >>

Ops == {"fetch_realtime_top50", "fetch_and_save"}
SaveOutcomes == {"ok", "denied", "partial"}
\* how the child process of the subprocess mode ends
SubprocessOutcomes == {"tmp_error", "timeout", "nonzero", "exit0", "malformed", "missing"}
\* a run of the headless browser: how it ends and the page it delivered
BrowserRuns ==
    {[out |-> o, html |-> None] : o \in {"import_error", "browser_error", "no_content"}}
    \cup {[out |-> "content", html |-> Some(p)] : p \in RealtimePages}
NoBrowserRun == [out |-> "not_run", html |-> None]
\* a response to one request of fetch_realtime_page
HttpResponses ==
    {[out |-> o, html |-> None] :
        o \in {"timeout", "request_error", "visitor_redirect", "status_other", "short",
               "visitor_content", "no_hot_content", "other_exception"}}
    \cup {[out |-> "valid", html |-> Some(p)] : p \in RealtimePages}

\* cache files a call may find
StampKinds == {<<"none", 0>>, <<"bad", 0>>, <<"iso", 1 - FreshMinutes>>,
               <<"iso", 0 - FreshMinutes>>, <<"iso", 0 - FreshMinutes - 1>>,
               <<"iso", 0 - DayMinutes - FreshMinutes>>}
InitialFiles ==
    {AbsentFile, CorruptFile, NoDataRecord, Record("iso", 0, <<>>),
     ObjectRecord("iso", 1 - FreshMinutes), ObjectRecord("iso", 0 - FreshMinutes)}
    \cup {Record(k[1], k[2], OldEntries(n)) : k \in StampKinds, n \in {TopN + MaxExtra}}

EmptyStats == [total_dates |-> 0, successful |-> 0, failed |-> 0, failed_dates |-> <<>>]
NoFile == [kind |-> "absent", date |-> 0, count |-> 0, data |-> <<>>]
\* no scrape_date call has run
NoRun == [steps |-> <<>>, ret |-> None, parsed |-> None, before |-> NoFile, between |-> None]

\* no fetch_page call and no scrape_range call is in progress
FetchIdle ==
    /\ fp_pc = "idle"
    /\ attempt = 0
    /\ fp_requests = 0
    /\ fp_sleeps = <<>>
    /\ fp_log = <<>>
    /\ fp_result = None
    /\ fp_resp = [kind |-> "none", status200 |-> FALSE, len |-> 0,
                  features |-> FALSE, notfound |-> FALSE, anchors |-> 0]
RangeIdle ==
    /\ delay = 0
    /\ sr_pc = "idle"
    /\ start_date = 0
    /\ end_date = 0
    /\ date_list = <<>>
    /\ idx = 0
    /\ stats = EmptyStats
    /\ files = [d \in 1..MaxDay |-> NoFile]
    /\ processed = <<>>
    /\ sr_sleeps = <<>>
    /\ outcomes = <<>>
    /\ sd_run = NoRun

\* no parsing function is applied on its own
ParseIdle ==
    /\ rp_html = PageOf(0)
    /\ rp_items = None
CleanupIdle ==
    /\ hp_raw = <<>>
    /\ hp_items = None
    /\ hp_processed = None
NumberIdle ==
    /\ en_text = [kind |-> "no_number", milli |-> 0, yi |-> FALSE, wan |-> FALSE, minus |-> FALSE]
    /\ en_out = None
\* what a request of fetch_realtime_page ends with: kind "timeout",
\* "request_error" (also the HTTPError of raise_for_status), "other" (any other
\* exception) or "response"; redirected: the final URL is the visitor
\* verification; has: the substrings the body contains
RtResponse(k, r, s, l, h) ==
    [kind |-> k, redirected |-> r, status200 |-> s, len |-> l, has |-> h]
NoRtResponse == RtResponse("none", FALSE, FALSE, 0, {})
PageIdle ==
    /\ frp_pc = "idle"
    /\ frp_url = 1
    /\ frp_attempt = 0
    /\ frp_log = <<>>
    /\ frp_resp = NoRtResponse
    /\ frp_result = None
\* scrape_date has not been called on its own
DateIdle ==
    /\ hd_date = 0
    /\ hd_fetched = None
    /\ hd_parse = None
    /\ hd_out = "none"
\* no fragment is being classified
ClassifyIdle ==
    /\ cf_text = <<>>
    /\ cf_primary = None
    /\ cf_backup = None
OtherIdle ==
    /\ PageIdle
    /\ DateIdle
    /\ ClassifyIdle
    /\ writes = 0
PureIdle ==
    /\ ParseIdle
    /\ CleanupIdle
    /\ NumberIdle
    /\ OtherIdle

\* save_data has not been called directly
SaveIdle ==
    /\ sv_date = 0
    /\ sv_data = <<>>
    /\ sv_ret = None
    /\ sv_before = [d \in 1..MaxDay |-> NoFile]
    /\ sv_same = FALSE

\* no call of fetch_realtime_top50 or fetch_and_save is in progress
RealtimeIdle ==
    /\ now = 0
    /\ calls = 0
    /\ pc = "idle"
    /\ op = "fetch_realtime_top50"
    /\ use_cache = TRUE
    /\ cached_data = None
    /\ url_idx = 1
    /\ rt_attempt = 0
    /\ rt_requests = 0
    /\ is_streamlit = FALSE
    /\ tmp_file = "none"
    /\ child = "none"
    /\ result = <<>>
    /\ fas_ret = None
    /\ source = ""
    /\ trace = <<>>
    /\ fileAtCall = cacheFile
    /\ save_ok = None
    /\ age_seen = None
    /\ read_failed = FALSE
    /\ data_rec = None
    /\ meta_rec = None

\* lines 1062-1121: a RealtimeHotScraper as constructed, over any cache file
InitRealtime ==
    /\ cacheFile \in InitialFiles
    /\ max_retries \in 0..MaxRtRetries
    /\ RealtimeIdle
    /\ FetchIdle
    /\ RangeIdle
    /\ SaveIdle
    /\ PureIdle

\* the clock advances; a call reads it at the freshness check and at the cache
\* write only
Tick ==
    /\ pc \in {"idle", "done", "raised", "meta"}
    /\ now < MaxNow
    /\ now' = now + 1
    /\ UNCHANGED << cacheFile, max_retries, calls, pc, op, use_cache, cached_data, url_idx,
                    rt_attempt, rt_requests, is_streamlit, tmp_file, result, fas_ret, source, trace,
                    fileAtCall, save_ok, age_seen, read_failed >>
    /\ UNCHANGED << child, fpVars, srVars, svVars, pureVars >>
    /\ UNCHANGED << data_rec, meta_rec >>

\* a caller invokes fetch_realtime_top50(use_cache, cache_file), or fetch_and_save,
\* which calls fetch_realtime_top50(use_cache=False, cache_file=output_file)
Call ==
    /\ pc \in {"idle", "done", "raised"}
    /\ calls < MaxCalls
    /\ calls' = calls + 1
    /\ \E o \in Ops, uc \in BOOLEAN :
          /\ op' = o
          /\ use_cache' = IF o = "fetch_and_save" THEN FALSE ELSE uc
          /\ pc' = IF use_cache' THEN "load" ELSE "browser"
    /\ cached_data' = None
    /\ url_idx' = 1
    /\ rt_attempt' = 0
    /\ rt_requests' = 0
    /\ is_streamlit' = FALSE
    /\ tmp_file' = "none"
    /\ child' = "none"
    /\ result' = <<>>
    /\ fas_ret' = None
    /\ source' = ""
    /\ trace' = <<>>
    /\ fileAtCall' = cacheFile
    /\ save_ok' = None
    /\ age_seen' = None
    /\ read_failed' = FALSE
    /\ data_rec' = None
    /\ meta_rec' = None
    /\ UNCHANGED << now, cacheFile, max_retries >>
    /\ UNCHANGED << fpVars, srVars, svVars, pureVars >>

\* fetch_realtime_top50 returns items; fetch_and_save turns them into a flag
Return(items, src) ==
    /\ pc' = "done"
    /\ result' = items
    /\ source' = src
    /\ fas_ret' = IF op = "fetch_and_save" THEN Some(items # <<>>) ELSE None

\* an exception leaves fetch_realtime_top50 (and fetch_and_save with it)
Raise ==
    /\ pc' = "raised"
    /\ source' = "raised"
    /\ UNCHANGED << result, fas_ret >>

\* lines 1481-1483: cached_data = self.load_from_file(cache_file)
LoadCache ==
    /\ pc = "load"
    /\ trace' = Append(trace, "CACHE_CHECK")
    /\ \E readable \in BOOLEAN :
          /\ cached_data' = load_from_file(cacheFile, readable, now)
          /\ read_failed' = (cacheFile.kind # "absent" /\ ~readable)
          /\ data_rec' = IF cached_data' # None THEN Some(cacheFile) ELSE None
          /\ pc' = IF cached_data' # None THEN "meta" ELSE "browser"
    /\ UNCHANGED meta_rec
    /\ UNCHANGED << now, cacheFile, max_retries, calls, op, use_cache, url_idx, rt_attempt,
                    rt_requests, is_streamlit, tmp_file, result, fas_ret, source,
                    fileAtCall, save_ok, age_seen >>
    /\ UNCHANGED << child, fpVars, srVars, svVars, pureVars >>

\* the freshness test with the bound included
is_fresh_inclusive(age) == age <= FreshMinutes

\* the freshness test of line 1493
is_fresh(age) == age < FreshMinutes

\* lines 1485-1497: the file is opened a second time for its timestamp; any
\* exception, also that of slicing a non-list, is swallowed by line 1496
CheckFreshness ==
    /\ pc = "meta"
    /\ \E readable \in BOOLEAN :
          IF readable /\ cacheFile.kind = "record" /\ cacheFile.tsKind = "iso"
          THEN /\ age_seen' = Some(now - cacheFile.ts)
               /\ meta_rec' = Some(cacheFile)
               /\ read_failed' = read_failed
               /\ IF is_fresh(now - cacheFile.ts) /\ cached_data[1].isList
                  THEN Return(Take(cached_data[1].items, TopN), "cache_hit")
                  ELSE /\ pc' = "browser"
                       /\ UNCHANGED << result, source, fas_ret >>
          ELSE /\ pc' = "browser"
               /\ read_failed' = (read_failed \/ ~readable)
               /\ UNCHANGED << age_seen, meta_rec, result, source, fas_ret >>
    /\ UNCHANGED << now, cacheFile, max_retries, calls, op, use_cache, cached_data, url_idx,
                    rt_attempt, rt_requests, is_streamlit, tmp_file, trace, fileAtCall,
                    save_ok, data_rec >>
    /\ UNCHANGED << child, fpVars, srVars, svVars, pureVars >>

\* _run_playwright_browser without the final slice
run_playwright_browser_unsliced(run) ==
    IF run.out = "content" THEN ParsedPage[run.html[1]] ELSE <<>>

\* _run_playwright_browser (lines 1641-1722): [] unless the browser delivered
\* a page, else the first TopN parsed entries
run_playwright_browser(run) ==
    IF run.out = "content" THEN Take(ParsedPage[run.html[1]], TopN) ELSE <<>>

\* lines 1614-1629 reading the payload whatever the child's exit
fetch_realtime_top50_with_playwright_any_exit(streamlit, sub, run) ==
    IF ~streamlit THEN [items |-> run_playwright_browser(run), tmp |-> "none"]
    ELSE IF sub = "tmp_error" THEN [items |-> <<>>, tmp |-> "none"]
    ELSE IF sub \in {"malformed", "missing"} THEN [items |-> <<>>, tmp |-> "removed"]
    ELSE [items |-> run_playwright_browser(run), tmp |-> "removed"]
\* fetch_realtime_top50_with_playwright (lines 1557-1639): the returned items
\* and what is left of the temporary file
fetch_realtime_top50_with_playwright(streamlit, sub, run) ==
    IF ~streamlit THEN [items |-> run_playwright_browser(run), tmp |-> "none"]
    ELSE IF sub = "tmp_error" THEN [items |-> <<>>, tmp |-> "none"]
    ELSE IF sub \in {"timeout", "nonzero"} THEN [items |-> <<>>, tmp |-> "exists"]
    ELSE IF sub \in {"malformed", "missing"} THEN [items |-> <<>>, tmp |-> "removed"]
    ELSE [items |-> run_playwright_browser(run), tmp |-> "removed"]

\* the cache write without the return that follows it
SaveAndReturn_no_return(items, src, onward) ==
    IF items # <<>>
    THEN \E io \in SaveOutcomes :
            LET saved == save_to_file(cacheFile, items, io, now)
            IN /\ cacheFile' = saved.file
               /\ save_ok' = Some(saved.ok)
               /\ pc' = onward
               /\ UNCHANGED << result, source, fas_ret >>
    ELSE /\ pc' = onward
         /\ UNCHANGED << cacheFile, save_ok, result, source, fas_ret >>

\* the cache write made for an empty list as well
SaveAndReturn_write_empty(items, src, onward) ==
    \E io \in SaveOutcomes :
        LET saved == save_to_file(cacheFile, items, io, now)
        IN /\ cacheFile' = saved.file
           /\ save_ok' = Some(saved.ok)
           /\ IF items # <<>>
              THEN Return(items, src)
              ELSE pc' = onward /\ UNCHANGED << result, source, fas_ret >>

\* lines 1503-1507 and 1516-1520: a non-empty list is written to the cache and
\* returned; an empty one sends the call on to the step `onward`
SaveAndReturn(items, src, onward) ==
    IF items # <<>>
    THEN \E io \in SaveOutcomes :
            LET saved == save_to_file(cacheFile, items, io, now)
            IN /\ cacheFile' = saved.file
               /\ save_ok' = Some(saved.ok)
               /\ Return(items, src)
    ELSE /\ pc' = onward
         /\ UNCHANGED << cacheFile, save_ok, result, source, fas_ret >>

\* lines 1499-1509: the browser strategy, in the process itself or, under
\* streamlit, in a child process whose browser run decides the payload
BrowserStrategy ==
    /\ pc = "browser"
    /\ trace' = Append(trace, "BROWSER")
    /\ \E streamlit \in BOOLEAN :
       \E sub \in (IF streamlit THEN SubprocessOutcomes ELSE {"no_child"}) :
       \E run \in (IF sub \in {"no_child", "exit0", "timeout", "nonzero"}
                   THEN BrowserRuns ELSE {NoBrowserRun}) :
          LET got == fetch_realtime_top50_with_playwright(streamlit, sub, run)
          IN /\ is_streamlit' = streamlit
             /\ tmp_file' = got.tmp
             /\ child' = IF streamlit THEN sub ELSE "none"
             /\ SaveAndReturn(got.items, "browser", "http")
    /\ UNCHANGED << now, max_retries, calls, op, use_cache, cached_data, url_idx,
                    rt_attempt, rt_requests, fileAtCall, age_seen, read_failed >>
    /\ UNCHANGED << fpVars, srVars, svVars, pureVars >>
    /\ UNCHANGED << data_rec, meta_rec >>

\* lines 1511-1513 and 1169-1170: fetch_realtime_page is entered
HttpBegin ==
    /\ pc = "http"
    /\ trace' = Append(trace, "HTTP")
    /\ pc' = "http_loop"
    /\ url_idx' = IF max_retries = 0 THEN Len(urls_to_try) + 1 ELSE 1
    /\ rt_attempt' = 0
    /\ UNCHANGED << now, cacheFile, max_retries, calls, op, use_cache, cached_data,
                    rt_requests, is_streamlit, tmp_file, result, fas_ret, source,
                    fileAtCall, save_ok, age_seen, read_failed >>
    /\ UNCHANGED << child, fpVars, srVars, svVars, pureVars >>
    /\ UNCHANGED << data_rec, meta_rec >>

\* lines 1170-1247: one pass of the inner loop of fetch_realtime_page; a valid
\* page is returned to lines 1514-1522, which parse it
HttpAttempt ==
    /\ pc = "http_loop"
    /\ url_idx <= Len(urls_to_try)
    /\ rt_attempt < max_retries
    /\ rt_requests' = rt_requests + 1
    /\ \E resp \in HttpResponses :
          IF resp.out = "valid"
          THEN /\ SaveAndReturn(Take(ParsedPage[resp.html[1]], TopN), "http", "fallback")
               /\ url_idx' = 1
               /\ rt_attempt' = 0
          ELSE /\ IF resp.out = "other_exception" \/ rt_attempt + 1 >= max_retries
                  THEN url_idx' = url_idx + 1 /\ rt_attempt' = 0
                  ELSE url_idx' = url_idx /\ rt_attempt' = rt_attempt + 1
               /\ UNCHANGED << pc, cacheFile, save_ok, result, source, fas_ret >>
    /\ UNCHANGED << now, max_retries, calls, op, use_cache, cached_data, is_streamlit,
                    tmp_file, trace, fileAtCall, age_seen, read_failed >>
    /\ UNCHANGED << child, fpVars, srVars, svVars, pureVars >>
    /\ UNCHANGED << data_rec, meta_rec >>

\* lines 1249-1250 and 1523-1524: no endpoint delivered a valid page (the loop
\* variables are locals of fetch_realtime_page and end with it)
HttpExhausted ==
    /\ pc = "http_loop"
    /\ url_idx > Len(urls_to_try)
    /\ pc' = "fallback"
    /\ url_idx' = 1
    /\ rt_attempt' = 0
    /\ UNCHANGED << now, cacheFile, max_retries, calls, op, use_cache, cached_data,
                    rt_requests, is_streamlit, tmp_file, result, fas_ret,
                    source, trace, fileAtCall, save_ok, age_seen, read_failed >>
    /\ UNCHANGED << child, fpVars, srVars, svVars, pureVars >>
    /\ UNCHANGED << data_rec, meta_rec >>

\* lines 1526-1533: stale cache, or the empty list; cached_data[:50] is outside
\* every try block and raises TypeError when cached_data is not a list
CacheFallback ==
    /\ pc = "fallback"
    /\ IF cached_data = None
       THEN /\ trace' = Append(trace, "FAILED")
            /\ Return(<<>>, "failed")
       ELSE /\ trace' = Append(trace, "CACHE_FALLBACK")
            /\ IF cached_data[1].isList
               THEN Return(Take(cached_data[1].items, TopN), "fallback")
               ELSE Raise
    /\ UNCHANGED << now, cacheFile, max_retries, calls, op, use_cache, cached_data, url_idx,
                    rt_attempt, rt_requests, is_streamlit, tmp_file, fileAtCall, save_ok,
                    age_seen, read_failed >>
    /\ UNCHANGED << child, fpVars, srVars, svVars, pureVars >>
    /\ UNCHANGED << data_rec, meta_rec >>

NextRealtime ==
    \/ Tick
    \/ Call
    \/ LoadCache
    \/ CheckFreshness
    \/ BrowserStrategy
    \/ HttpBegin
    \/ HttpAttempt
    \/ HttpExhausted
    \/ CacheFallback

SpecRealtime == InitRealtime /\ [][NextRealtime]_vars

\* a step of the call in progress: the calling thread runs on, every request
\* ends by its timeout (line 1194) and the child process by its own (line 1610)
CallStep ==
    \/ LoadCache
    \/ CheckFreshness
    \/ BrowserStrategy
    \/ HttpBegin
    \/ HttpAttempt
    \/ HttpExhausted
    \/ CacheFallback

SpecRealtimeLive == SpecRealtime /\ WF_vars(CallStep)

(* ---- the cache file shared with other acquisition calls (1430-1460) ------ *)
\* the entries another acquisition call has fetched
OtherEntries == [i \in 1..2 |-> Entry(i, Title(200 + i))]

\* lines 1441-1460 run by an acquisition call of another process on the same
\* cache path, at any moment of this process's call: the file is replaced,
\* left as it is, or left truncated
OtherWriter ==
    /\ writes < MaxWrites
    /\ writes' = writes + 1
    /\ \E io \in SaveOutcomes :
          cacheFile' = save_to_file(cacheFile, OtherEntries, io, now).file
    /\ UNCHANGED << now, max_retries, calls, pc, op, use_cache, cached_data, url_idx,
                    rt_attempt, rt_requests, is_streamlit, tmp_file, child, result, fas_ret,
                    source, trace, fileAtCall, save_ok, age_seen, read_failed, data_rec,
                    meta_rec >>
    /\ UNCHANGED << fpVars, srVars, svVars, rpVars, hpVars, enVars, pgVars, hdVars, cfVars >>

NextShared ==
    \/ Tick
    \/ Call
    \/ LoadCache
    \/ CheckFreshness
    \/ BrowserStrategy
    \/ HttpBegin
    \/ HttpAttempt
    \/ HttpExhausted
    \/ CacheFallback
    \/ OtherWriter

\* the cache file holds the record of an earlier acquisition, of any age
InitShared ==
    /\ InitRealtime
    /\ cacheFile.kind = "record"
    /\ cacheFile.tsKind = "iso"
    /\ cacheFile.data # <<>>

SpecShared == InitShared /\ [][NextShared]_vars

(* ------------- WeiboHotScraper.fetch_page (scrap.py 133-204) -------------- *)
\* What one session.get of line 150 can end with.  "transport" is a
\* RequestException (timeout, connection error, or the HTTPError that
\* raise_for_status raises for a 4xx/5xx status), "other" any other exception;
\* "response" is a response that passed raise_for_status.
NoResponse == [kind |-> "none", status200 |-> FALSE, len |-> 0,
               features |-> FALSE, notfound |-> FALSE, anchors |-> 0]
TransportError == [kind |-> "transport", status200 |-> FALSE, len |-> 0,
                   features |-> FALSE, notfound |-> FALSE, anchors |-> 0]
OtherError == [kind |-> "other", status200 |-> FALSE, len |-> 0,
               features |-> FALSE, notfound |-> FALSE, anchors |-> 0]
Response(s, l, f, nf, a) == [kind |-> "response", status200 |-> s, len |-> l,
                             features |-> f, notfound |-> nf, anchors |-> a]
EmptyResponse == Response(TRUE, 0, FALSE, FALSE, 0)
\* a page with hot-search features, the ordinary page of a day
HotPage == Response(TRUE, MinBodyLen + 1, TRUE, FALSE, MinAnchors)
Responses ==
    {TransportError, OtherError, EmptyResponse, HotPage,
     Response(FALSE, MinBodyLen + 1, TRUE, FALSE, MinAnchors),
     Response(TRUE, MinBodyLen, TRUE, FALSE, MinAnchors),
     Response(TRUE, MinBodyLen + 1, TRUE, TRUE, 0),
     Response(TRUE, MinBodyLen + 1, FALSE, TRUE, MinAnchors - 1),
     Response(TRUE, MinBodyLen + 1, FALSE, TRUE, MinAnchors),
     Response(TRUE, MinBodyLen + 1, FALSE, FALSE, 0)}

\* lines 154-189 with the not-found test of line 172 ahead of the marker test of line 167
page_verdict_notfound_first(resp) ==
    IF resp.status200 /\ resp.len > MinBodyLen
    THEN IF resp.notfound
         THEN IF resp.anchors < MinAnchors THEN "absent" ELSE "return"
         ELSE "return"
    ELSE "invalid"
\* lines 154-189: what fetch_page does with a response that arrived
page_verdict(resp) ==
    IF resp.status200 /\ resp.len > MinBodyLen
    THEN IF resp.features THEN "return"
         ELSE IF resp.notfound
              THEN IF resp.anchors < MinAnchors THEN "absent" ELSE "return"
              ELSE "return"
    ELSE "invalid"

\* line 194 with a linear wait in place of the exponential one
wait_time_linear(a) == 2 * a
\* line 194: wait_time = 2**attempt
wait_time(a) == Pow2(a)

\* line 193: a transport failure is followed by a pause unless it was the last attempt
sleeps_after(a, retries) == a < retries - 1

\* the loop of line 145 running for attempt = max_retries as well
loop_continues_inclusive(a, retries) == a <= retries
\* line 145: for attempt in range(self.max_retries)
loop_continues(a, retries) == a < retries

\* line 145: the call enters the loop with attempt 0
FetchStart ==
    /\ fp_pc' = "loop"
    /\ attempt' = 0
    /\ fp_requests' = 0
    /\ fp_sleeps' = <<>>
    /\ fp_log' = <<>>
    /\ fp_result' = None
    /\ fp_resp' = NoResponse

\* a caller invokes fetch_page(date)
FetchCall ==
    /\ fp_pc = "idle"
    /\ sr_pc = "idle"
    /\ FetchStart
    /\ UNCHANGED << rtVars, srVars, svVars, pureVars >>

\* lines 145-202: one iteration of the retry loop
FetchAttempt ==
    /\ fp_pc = "loop"
    /\ loop_continues(attempt, max_retries)
    /\ fp_requests' = fp_requests + 1
    /\ \E resp \in Responses :
         /\ fp_resp' = resp
         /\ IF resp.kind = "transport"
            THEN /\ fp_log' = Append(fp_log, "transport")
                 /\ fp_sleeps' = IF sleeps_after(attempt, max_retries)
                                 THEN Append(fp_sleeps, wait_time(attempt))
                                 ELSE fp_sleeps
                 /\ attempt' = attempt + 1
                 /\ UNCHANGED << fp_pc, fp_result >>
            ELSE IF resp.kind = "other"
            THEN /\ fp_log' = Append(fp_log, "other")
                 /\ fp_pc' = "done"
                 /\ fp_result' = None
                 /\ UNCHANGED << fp_sleeps, attempt >>
            ELSE IF page_verdict(resp) = "invalid"
            THEN /\ fp_log' = Append(fp_log, "invalid")
                 /\ attempt' = attempt + 1
                 /\ UNCHANGED << fp_pc, fp_result, fp_sleeps >>
            ELSE /\ fp_log' = Append(fp_log, page_verdict(resp))
                 /\ fp_pc' = "done"
                 /\ fp_result' = IF page_verdict(resp) = "return" THEN Some(resp) ELSE None
                 /\ UNCHANGED << fp_sleeps, attempt >>
    /\ UNCHANGED << rtVars, srVars, svVars, pureVars >>

\* line 204: the loop ran out of attempts
FetchGiveUp ==
    /\ fp_pc = "loop"
    /\ ~loop_continues(attempt, max_retries)
    /\ fp_pc' = "done"
    /\ fp_result' = None
    /\ UNCHANGED << attempt, fp_requests, fp_sleeps, fp_log, fp_resp >>
    /\ UNCHANGED << rtVars, srVars, svVars, pureVars >>

\* lines 88-131: a scraper as constructed, before any call
InitFetch ==
    /\ cacheFile = AbsentFile
    /\ max_retries \in 0..MaxRetries
    /\ RealtimeIdle
    /\ FetchIdle
    /\ RangeIdle
    /\ SaveIdle
    /\ PureIdle

NextFetch ==
    \/ FetchCall
    \/ FetchAttempt
    \/ FetchGiveUp

SpecFetch == InitFetch /\ [][NextFetch]_vars

(* ------ WeiboHotScraper.scrape_date / scrape_range (scrap.py 624-724) ----- *)
\* A date argument is a day number in 1..MaxDay, day MaxDay being 9999-12-31,
\* the last day datetime can hold; 0 is a string strptime rejects.
DateArgs == 0..MaxDay
Delays == {0 - 2, 2}

\* time.sleep raises ValueError for a negative length
sleep_raises(secs) == secs < 0

\* lines 680-685: the days from start to end, both included
dates_between(first, last) ==
    IF first <= last THEN [k \in 1..(last - first + 1) |-> first + k - 1] ELSE <<>>

\* line 685: current += timedelta(days=1) overflows past the last day
date_overflow(first, last) == first <= last /\ last = MaxDay

\* parse_page (lines 322-551) as far as the range loop depends on it: it raises
\* nothing, a page with the hot-search markup yields entries stamped with the
\* date, any other page yields none
parse_page(html, date) ==
    IF html.features
    THEN << [rank |-> 1, title |-> Title(1), date |-> date],
            [rank |-> 2, title |-> Title(2), date |-> date] >>
    ELSE <<>>

Snapshot(date, data) == [kind |-> "snapshot", date |-> date, count |-> Len(data), data |-> data]
CorruptSnapshot == [kind |-> "corrupt", date |-> 0, count |-> 0, data |-> <<>>]

\* lines 581-587 writing after the earlier content in place of replacing it
save_data_appending(old, data, date, io) ==
    IF date = 0 THEN [file |-> old, ok |-> FALSE]
    ELSE IF io = "ok" THEN [file |-> Snapshot(date, old.data \o data), ok |-> TRUE]
    ELSE IF io = "partial" THEN [file |-> CorruptSnapshot, ok |-> FALSE]
    ELSE [file |-> old, ok |-> FALSE]
\* lines 553-594: the file of the date after the call, and the value returned
save_data(old, data, date, io) ==
    IF date = 0 THEN [file |-> old, ok |-> FALSE]    \* strptime raises at line 566
    ELSE IF io = "ok" THEN [file |-> Snapshot(date, data), ok |-> TRUE]
    ELSE IF io = "partial" THEN [file |-> CorruptSnapshot, ok |-> FALSE]
    ELSE [file |-> old, ok |-> FALSE]

\* lines 697-706: the statistics after one date
record_success(st) == [st EXCEPT !.successful = @ + 1]
record_failure(st, date) ==
    [st EXCEPT !.failed = @ + 1, !.failed_dates = Append(@, date)]

\* lines 672-688: the call parses its arguments and builds date_list
RangeCall ==
    /\ sr_pc = "idle"
    /\ fp_pc = "idle"
    /\ \E s \in DateArgs, e \in DateArgs :
         /\ start_date' = s
         /\ end_date' = e
         /\ IF s = 0 \/ e = 0 \/ date_overflow(s, e)
            THEN \* ValueError of strptime (line 719) or OverflowError (line 721)
                 /\ sr_pc' = "done"
                 /\ UNCHANGED << date_list, idx, stats >>
            ELSE /\ date_list' = dates_between(s, e)
                 /\ stats' = [stats EXCEPT !.total_dates = Len(dates_between(s, e))]
                 /\ idx' = 1
                 /\ sr_pc' = "loop"
    /\ UNCHANGED << delay, files, processed, sr_sleeps, outcomes, sd_run >>
    /\ UNCHANGED << rtVars, fpVars, svVars, pureVars >>

\* lines 691-695 and 637: the next date is taken and scrape_date calls fetch_page
DateBegin ==
    /\ sr_pc = "loop"
    /\ idx <= Len(date_list)
    /\ sr_pc' = "fetching"
    /\ processed' = Append(processed, date_list[idx])
    /\ FetchStart
    /\ UNCHANGED << delay, start_date, end_date, date_list, idx, stats, files, sr_sleeps,
                    outcomes, sd_run >>
    /\ UNCHANGED << rtVars, svVars, pureVars >>

\* lines 709-710: the pause between two dates is skipped after the last date
pause_between(i, n) == i < n

\* lines 703-706: an exception of scrape_date counts as the failure of its date
date_exception(st, date) == [st |-> record_failure(st, date), go |-> TRUE]

\* lines 638-659 and 697-710: fetch_page has returned; the rest of scrape_date,
\* the statistics of the date, and the pause before the next date
DateFinish ==
    /\ sr_pc = "fetching"
    /\ fp_pc = "done"
    /\ LET date == date_list[idx]
           n == Len(date_list)
           Step(st, fs, slept, go, how, run) ==
               \* lines 709-710, then the loop goes on or the outer handler returns
               /\ files' = fs
               /\ outcomes' = Append(outcomes, how)
               /\ IF ~go
                  THEN /\ stats' = st
                       /\ sr_sleeps' = slept
                       /\ sd_run' = run
                       /\ sr_pc' = "done"
                       /\ idx' = idx
                  ELSE IF pause_between(idx, n)
                  THEN /\ stats' = st
                       /\ sr_sleeps' = Append(slept, delay \div 2)
                       /\ sd_run' = [run EXCEPT !.between = Some(delay \div 2)]
                       /\ IF sleep_raises(delay \div 2)
                          THEN /\ sr_pc' = "done"
                               /\ idx' = idx
                          ELSE /\ sr_pc' = "loop"
                               /\ idx' = idx + 1
                  ELSE /\ stats' = st
                       /\ sr_sleeps' = slept
                       /\ sd_run' = run
                       /\ sr_pc' = "loop"
                       /\ idx' = idx + 1
       IN  IF fp_result = None
           THEN \* lines 638-640
                Step(record_failure(stats, date), files, sr_sleeps, TRUE, "absent",
                     [NoRun EXCEPT !.steps = <<"fetch">>, !.ret = Some(FALSE),
                                   !.before = files[date]])
           ELSE IF sleep_raises(delay)
           THEN \* line 643 raises
                Step(date_exception(stats, date).st, files, Append(sr_sleeps, delay),
                     date_exception(stats, date).go, "raised",
                     [NoRun EXCEPT !.steps = <<"fetch", "sleep">>, !.before = files[date]])
           ELSE \* lines 643-659
                \E io \in SaveOutcomes :
                  LET hot_items == parse_page(fp_result[1], date)
                      saved == save_data(files[date], hot_items, date, io)
                  IN  Step(IF saved.ok THEN record_success(stats)
                                       ELSE record_failure(stats, date),
                           [files EXCEPT ![date] = saved.file],
                           Append(sr_sleeps, delay), TRUE,
                           IF saved.ok THEN "saved" ELSE "save_failed",
                           [steps |-> <<"fetch", "sleep", "parse", "save">>,
                            ret |-> Some(saved.ok), parsed |-> Some(hot_items),
                            before |-> files[date], between |-> None])
    /\ fp_pc' = "idle"
    /\ UNCHANGED << attempt, fp_requests, fp_sleeps, fp_log, fp_result, fp_resp >>
    /\ UNCHANGED << delay, start_date, end_date, date_list, processed >>
    /\ UNCHANGED << rtVars, svVars, pureVars >>

\* lines 712-724: the loop is over and the statistics are returned
RangeReturn ==
    /\ sr_pc = "loop"
    /\ idx > Len(date_list)
    /\ sr_pc' = "done"
    /\ UNCHANGED << delay, start_date, end_date, date_list, idx, stats, files, processed,
                    sr_sleeps, outcomes, sd_run >>
    /\ UNCHANGED << rtVars, fpVars, svVars, pureVars >>

\* lines 88-131: a WeiboHotScraper as constructed, over an empty output directory
InitRange ==
    /\ cacheFile = AbsentFile
    /\ max_retries \in 0..MaxRetries
    /\ RealtimeIdle
    /\ FetchIdle
    /\ delay \in Delays
    /\ sr_pc = "idle"
    /\ start_date = 0
    /\ end_date = 0
    /\ date_list = <<>>
    /\ idx = 0
    /\ stats = EmptyStats
    /\ files = [d \in 1..MaxDay |-> NoFile]
    /\ processed = <<>>
    /\ sr_sleeps = <<>>
    /\ outcomes = <<>>
    /\ sd_run = NoRun
    /\ SaveIdle
    /\ PureIdle

\* fetch_page runs inside scrape_date only
NextRange ==
    \/ RangeCall
    \/ DateBegin
    \/ FetchAttempt
    \/ FetchGiveUp
    \/ DateFinish
    \/ RangeReturn

SpecRange == InitRange /\ [][NextRange]_vars

(* ------------ direct calls of save_data (scrap.py 553-594) ---------------- *)
\* the dates save_data is called with: a day, or 0 for a malformed date
SaveDates == 0..MaxSaveDay
\* an entry list of n entries of the date
Entries(n, date) == [k \in 1..n |-> [rank |-> k, title |-> Title(k), date |-> date]]

\* lines 553-594: one call save_data(data, date), whole
SaveCall ==
    /\ sr_pc = "idle"
    /\ fp_pc = "idle"
    /\ \E date \in SaveDates, n \in 0..MaxEntries, io \in SaveOutcomes :
         LET data == Entries(n, date)
             old == IF date \in DOMAIN files THEN files[date] ELSE NoFile
             saved == save_data(old, data, date, io)
         IN  /\ files' = IF date \in DOMAIN files
                          THEN [files EXCEPT ![date] = saved.file]
                          ELSE files
             /\ sv_date' = date
             /\ sv_data' = data
             /\ sv_ret' = Some(saved.ok)
             /\ sv_before' = files
             /\ sv_same' = (sv_ret = Some(TRUE) /\ sv_date = date /\ sv_data = data)
    /\ UNCHANGED << delay, sr_pc, start_date, end_date, date_list, idx, stats, processed,
                    sr_sleeps, outcomes, sd_run >>
    /\ UNCHANGED << rtVars, fpVars, pureVars >>

\* lines 88-131: a WeiboHotScraper as constructed, over an empty output directory
InitSave ==
    /\ cacheFile = AbsentFile
    /\ max_retries = MaxRetries
    /\ RealtimeIdle
    /\ FetchIdle
    /\ RangeIdle
    /\ SaveIdle
    /\ PureIdle

NextSave == SaveCall

SpecSave == InitSave /\ [][NextSave]_vars

(* ------ parse_realtime_page applied to a page (scrap.py 1252-1366) -------- *)
\* the sequences over S of at most n elements
SeqsUpTo(S, n) == UNION {[1..k -> S] : k \in 0..n}

\* table rows: two ordinary topics, a digits-only title, a header or pinned row
ParseRows ==
    {GoodRow(Title(1)), GoodRow(Title(2)), GoodRow(DigitTitle), Row(TRUE, TRUE, TRUE, Title(3))}
\* link texts: a topic of the table, a topic of its own, a one-character text
ParseLinks == {Title(1), Title(3), ShortTitle}
\* a table of n distinct topics followed by m links, the first back to the table
LongPage(n, m) ==
    [rows |-> [i \in 1..n |-> GoodRow(Title(i))],
     links |-> [i \in 1..m |-> Title(n + i - 1)]]
ParsePages ==
    {[rows |-> r, links |-> l] : r \in SeqsUpTo(ParseRows, MaxRows), l \in SeqsUpTo(ParseLinks, MaxLinks)}
    \cup {LongPage(MinTableRows - 1, MaxLinks), LongPage(MinTableRows, MaxLinks),
          LongPage(MinTableRows - 1, TopN)}

\* lines 1252-1366: parse_realtime_page(html), whole
ParseRealtime ==
    /\ rp_items = None
    /\ rp_items' = Some(parse_realtime_page(rp_html))
    /\ UNCHANGED << rp_html, hpVars, enVars, otherPure >>
    /\ UNCHANGED << rtVars, fpVars, srVars, svVars >>

InitParse ==
    /\ cacheFile = AbsentFile
    /\ max_retries = MaxRtRetries
    /\ RealtimeIdle
    /\ FetchIdle
    /\ RangeIdle
    /\ SaveIdle
    /\ rp_html \in ParsePages
    /\ rp_items = None
    /\ CleanupIdle
    /\ NumberIdle
    /\ OtherIdle

NextParse == ParseRealtime

SpecParse == InitParse /\ [][NextParse]_vars

(* -- the entries of a historical page: parse_page (scrap.py 518-541), then -- *)
(* -- _process_items (data_pre_process.py 32-36)                            -- *)
\* an entry as read from the page: the rank _parse_rank found (0 when none),
\* its title, and its heat (0 when the page shows none)
HotItem(r, t, h) == [rank |-> r, title |-> t, heat |-> h]
RawItems ==
    {HotItem(r, t, h) : r \in 0..MaxRank, t \in {EmptyTitle, Title(1)}, h \in {0, 1}}

\* scrap.py line 519: an entry is kept when rank > 0 and the title is not empty
IsValid(item) == item.rank > 0 /\ item.title # EmptyTitle
\* scrap.py lines 518-538: the kept entries, sorted by rank (a stable sort); the
\* ranks stay those of the page
parse_page_items(raw) == SortByRank(SelectSeq(raw, IsValid))

\* data_pre_process.py line 33: entries of heat 0 are dropped
HasHeat(item) == item.heat # 0
\* data_pre_process.py lines 32-36 without the renumbering of lines 34-35
process_items_keep_rank(items) == SelectSeq(items, HasHeat)
\* data_pre_process.py lines 32-36: the entries of non-zero heat, renumbered
\* 1, 2, ... in list order
process_items(items) ==
    LET filtered == SelectSeq(items, HasHeat)
    IN [k \in 1..Len(filtered) |-> [filtered[k] EXCEPT !.rank = k]]

\* parse_page returns the entries of the page
ParsePage ==
    /\ hp_items = None
    /\ hp_items' = Some(parse_page_items(hp_raw))
    /\ UNCHANGED << rpVars, hp_raw, hp_processed, enVars, otherPure >>
    /\ UNCHANGED << rtVars, fpVars, srVars, svVars >>

\* process_file hands the saved entries to _process_items
ProcessItems ==
    /\ hp_items # None
    /\ hp_processed = None
    /\ hp_processed' = Some(process_items(hp_items[1]))
    /\ UNCHANGED << rpVars, hp_raw, hp_items, enVars, otherPure >>
    /\ UNCHANGED << rtVars, fpVars, srVars, svVars >>

InitCleanup ==
    /\ cacheFile = AbsentFile
    /\ max_retries = MaxRetries
    /\ RealtimeIdle
    /\ FetchIdle
    /\ RangeIdle
    /\ SaveIdle
    /\ ParseIdle
    /\ NumberIdle
    /\ hp_raw \in SeqsUpTo(RawItems, MaxRaw)
    /\ hp_items = None
    /\ hp_processed = None
    /\ OtherIdle

NextCleanup ==
    \/ ParsePage
    \/ ProcessItems

SpecCleanup == InitCleanup /\ [][NextCleanup]_vars

(* ------------ WeiboHotScraper._extract_number (scrap.py 206-240) ---------- *)
\* A text is described by what re.search(r"[\d\.]+") finds in it: no match
\* ("no_number"), a run float() rejects such as "1.2.3" ("malformed"), or a
\* decimal, given in thousandths ("number"); by the unit markers it carries
\* (yi, the hundred-million marker, wan, the ten-thousand marker); and by a
\* minus sign before the number.  "not_text" is an argument that is not a
\* string.  Results are in hundredths.
Text(k, n, y, w, m) == [kind |-> k, milli |-> n, yi |-> y, wan |-> w, minus |-> m]
\* 0, 0.5, 49, 50, 1.50, 150, 855.15, 855.155
ParsedNumbers == {0, 500, 49000, 50000, 1500, 150000, 855150, 855155}
\* 8210, which the pages show without the yi marker
BareNumbers == {8210000}
Texts ==
    {Text("number", n, y, w, m) : n \in ParsedNumbers, y \in BOOLEAN, w \in BOOLEAN, m \in BOOLEAN}
    \cup {Text("number", n, FALSE, w, m) : n \in BareNumbers, w \in BOOLEAN, m \in BOOLEAN}
    \cup {Text(k, 0, y, w, FALSE) : k \in {"no_number", "malformed"}, y \in BOOLEAN, w \in BOOLEAN}
    \cup {Text("not_text", 0, FALSE, FALSE, FALSE)}

\* line 237, round(num, 2), for num = p / q hundredths: the nearest whole
\* number of hundredths; when p / q lies exactly halfway the binary value of
\* num decides (round(0.005, 2) is 0.01, round(0.015, 2) is 0.01), which the
\* flag up stands for
round2(p, q, up) ==
    LET lo == p \div q
        rest == p % q
    IN IF 2 * rest < q THEN lo
       ELSE IF 2 * rest > q THEN lo + 1
       ELSE IF up THEN lo + 1 ELSE lo

\* lines 228-235 with a bare number left as it is
extract_number_unscaled(text, up) ==
    IF text.kind # "number" THEN 0
    ELSE IF text.yi THEN round2(text.milli * 1000, 1, up)
    ELSE round2(text.milli, 10, up)
\* lines 206-240: 0.0 when nothing is matched or anything raises; else the
\* matched decimal times 10000 with the yi marker, as it is with the wan
\* marker, divided by 10000 with neither, rounded to two decimals
extract_number(text, up) ==
    IF text.kind # "number" THEN 0
    ELSE IF text.yi THEN round2(text.milli * 1000, 1, up)
    ELSE IF text.wan THEN round2(text.milli, 10, up)
    ELSE round2(text.milli, 100000, up)

\* one call _extract_number(text), whole
ExtractNumber ==
    /\ en_out = None
    /\ \E up \in BOOLEAN : en_out' = Some(extract_number(en_text, up))
    /\ UNCHANGED << en_text, rpVars, hpVars, otherPure >>
    /\ UNCHANGED << rtVars, fpVars, srVars, svVars >>

InitNumber ==
    /\ cacheFile = AbsentFile
    /\ max_retries = MaxRetries
    /\ RealtimeIdle
    /\ FetchIdle
    /\ RangeIdle
    /\ SaveIdle
    /\ ParseIdle
    /\ CleanupIdle
    /\ en_text \in Texts
    /\ en_out = None
    /\ OtherIdle

NextNumber == ExtractNumber

SpecNumber == InitNumber /\ [][NextNumber]_vars

(* ----- RealtimeHotScraper.fetch_realtime_page (scrap.py 1147-1250) -------- *)
\* bodies a response may carry: with or without the words of the visitor
\* verification, in either case, and with or without the ranking markers
\* ("resou" and "paihang" stand for the two Chinese words of line 1224)
VisitorWords == {{}, {"visitor"}, {"passport"}, {"visitor", "passport"}, {"Visitor", "passport"}}
MarkerWords == {{}, {"pl_top_realtimehot"}, {"td-02"}, {"resou"}, {"paihang"},
                {"resou", "paihang"}}
RtResponses ==
    {RtResponse(k, FALSE, FALSE, 0, {}) : k \in {"timeout", "request_error", "other"}}
    \cup {RtResponse("response", r, st, l, v \cup m) :
              r \in BOOLEAN, st \in BOOLEAN, l \in {MinRealtimeLen - 1, MinRealtimeLen},
              v \in VisitorWords, m \in MarkerWords}

\* line 1215: html_text.lower()
lower(has) == {IF w = "Visitor" THEN "visitor" ELSE w : w \in has}

\* lines 1221-1225
has_hot_content(has) ==
    \/ "pl_top_realtimehot" \in has
    \/ "td-02" \in has
    \/ ("resou" \in has /\ "paihang" \in has)

\* the checks of lines 1201-1231 without the size check of line 1210
realtime_verdict_any_size(resp) ==
    IF resp.kind # "response" THEN resp.kind
    ELSE IF resp.redirected THEN "redirect"
    ELSE IF ~resp.status200 THEN "status"
    ELSE IF "visitor" \in lower(resp.has) /\ "passport" \in lower(resp.has) THEN "visitor"
    ELSE IF has_hot_content(resp.has) THEN "ok"
    ELSE "no_marker"
\* lines 1192-1247: what one pass of the inner loop makes of its request
realtime_verdict(resp) ==
    IF resp.kind # "response" THEN resp.kind
    ELSE IF resp.redirected THEN "redirect"
    ELSE IF ~resp.status200 THEN "status"
    ELSE IF resp.len < MinRealtimeLen THEN "short"
    ELSE IF "visitor" \in lower(resp.has) /\ "passport" \in lower(resp.has) THEN "visitor"
    ELSE IF has_hot_content(resp.has) THEN "ok"
    ELSE "no_marker"

\* lines 1160-1170: the call enters the loops; with max_retries = 0 no inner
\* loop runs
PageCall ==
    /\ frp_pc = "idle"
    /\ frp_pc' = "loop"
    /\ frp_url' = IF max_retries = 0 THEN Len(urls_to_try) + 1 ELSE 1
    /\ frp_attempt' = 0
    /\ UNCHANGED << frp_log, frp_resp, frp_result >>
    /\ UNCHANGED << rtVars, fpVars, srVars, svVars, rpVars, hpVars, enVars, hdVars, cfVars, writes >>

\* lines 1171-1247: one pass of the inner loop
PageAttempt ==
    /\ frp_pc = "loop"
    /\ frp_url <= Len(urls_to_try)
    /\ frp_attempt < max_retries
    /\ \E resp \in RtResponses :
          LET verdict == realtime_verdict(resp)
          IN  /\ frp_resp' = resp
              /\ frp_log' = Append(frp_log, [url |-> urls_to_try[frp_url],
                                             returned |-> verdict = "ok"])
              /\ IF verdict = "ok"
                 THEN /\ frp_result' = Some(resp)
                      /\ frp_pc' = "done"
                      /\ UNCHANGED << frp_url, frp_attempt >>
                 ELSE /\ IF verdict = "other" \/ frp_attempt + 1 >= max_retries
                         THEN frp_url' = frp_url + 1 /\ frp_attempt' = 0
                         ELSE frp_url' = frp_url /\ frp_attempt' = frp_attempt + 1
                      /\ UNCHANGED << frp_pc, frp_result >>
    /\ UNCHANGED << rtVars, fpVars, srVars, svVars, rpVars, hpVars, enVars, hdVars, cfVars, writes >>

\* lines 1249-1250: every endpoint is used up
PageExhausted ==
    /\ frp_pc = "loop"
    /\ frp_url > Len(urls_to_try)
    /\ frp_pc' = "done"
    /\ frp_result' = None
    /\ UNCHANGED << frp_url, frp_attempt, frp_log, frp_resp >>
    /\ UNCHANGED << rtVars, fpVars, srVars, svVars, rpVars, hpVars, enVars, hdVars, cfVars, writes >>

\* lines 1062-1121: a RealtimeHotScraper as constructed
InitPage ==
    /\ cacheFile = AbsentFile
    /\ max_retries \in 0..MaxRtRetries
    /\ RealtimeIdle
    /\ FetchIdle
    /\ RangeIdle
    /\ SaveIdle
    /\ PureIdle

NextPage ==
    \/ PageCall
    \/ PageAttempt
    \/ PageExhausted

SpecPage == InitPage /\ [][NextPage]_vars

(* -- parse_page and _parse_page_backup element by element (scrap.py 297-814) - *)
\* An element of a historical page, an <a> for the primary strategy or a
\* div.rounded-lg for the backup: h2, it holds an h2.text-xl; flex, it holds a
\* div.flex; rank and title, what _parse_rank makes of the h2 (rank 0 when no
\* rank is found)
Element(h, f, r, t) == [h2 |-> h, flex |-> f, rank |-> r, title |-> t]
Elements ==
    {Element(TRUE, TRUE, r, Title(r)) : r \in 1..MaxRank}
    \cup {Element(FALSE, TRUE, 1, Title(1)), Element(TRUE, FALSE, 1, Title(1)),
          Element(TRUE, TRUE, 0, Title(1)), Element(TRUE, TRUE, 1, EmptyTitle)}
HistoricalPages ==
    {[anchors |-> a, containers |-> c] :
        a \in SeqsUpTo(Elements, MaxAnchorTags), c \in SeqsUpTo(Elements, MaxContainers)}

\* lines 348-351: the <a> elements taken for hot-search entries
is_hot_tag(a) == a.h2 /\ a.flex

\* the tests of one element without the test of its rank
Extractable_any_rank(e) == e.h2 /\ e.flex /\ e.title # EmptyTitle
\* lines 361-370 and 519 (backup: 748-756 and 792): the element yields an entry
Extractable(e) == e.h2 /\ e.flex /\ e.rank > 0 /\ e.title # EmptyTitle

\* lines 357-536 (backup: 744-807): the loop over the elements; one that
\* yields no entry is passed over and the loop goes on
extract_entries(elements, date) ==
    LET kept == SelectSeq(elements, Extractable)
    IN  [k \in 1..Len(kept) |-> [rank |-> kept[k].rank, title |-> kept[k].title, date |-> date]]

\* lines 342-539: the primary strategy, its entries sorted by rank
parse_page_primary(page, date) ==
    SortByRank(extract_entries(SelectSeq(page.anchors, is_hot_tag), date))
\* lines 737-814: the backup strategy, its entries in document order
parse_page_backup(page, date) == extract_entries(page.containers, date)

\* parse_page running the backup strategy whatever the primary one found
parse_page_steps_always_backup(page, date) ==
    LET first == parse_page_primary(page, date)
        second == parse_page_backup(page, date)
    IN  [primary |-> first, backup |-> Some(second),
         items |-> IF Len(first) = 0 THEN second ELSE first]
\* lines 308-551: what the primary strategy found, what the backup strategy
\* found when it ran, and the list returned
parse_page_steps(page, date) ==
    LET first == parse_page_primary(page, date)
    IN  IF Len(first) = 0
        THEN [primary |-> first, backup |-> Some(parse_page_backup(page, date)),
              items |-> parse_page_backup(page, date)]
        ELSE [primary |-> first, backup |-> None, items |-> first]

\* lines 624-659: one call scrape_date(date), whole, on what fetch_page returns
ScrapeDate ==
    /\ hd_out = "none"
    /\ sr_pc = "idle"
    /\ \E date \in 1..MaxSaveDay, fetched \in {None} \cup {Some(p) : p \in HistoricalPages} :
          /\ hd_date' = date
          /\ hd_fetched' = fetched
          /\ IF fetched = None
             THEN /\ hd_out' = "absent"
                  /\ UNCHANGED << hd_parse, files >>
             ELSE IF sleep_raises(delay)
             THEN /\ hd_out' = "raised"
                  /\ UNCHANGED << hd_parse, files >>
             ELSE \E io \in SaveOutcomes :
                     LET parsed == parse_page_steps(fetched[1], date)
                         saved == save_data(files[date], parsed.items, date, io)
                     IN  /\ hd_parse' = Some(parsed)
                         /\ files' = [files EXCEPT ![date] = saved.file]
                         /\ hd_out' = IF saved.ok THEN "saved" ELSE "save_failed"
    /\ UNCHANGED << delay, sr_pc, start_date, end_date, date_list, idx, stats, processed,
                    sr_sleeps, outcomes, sd_run >>
    /\ UNCHANGED << rtVars, fpVars, svVars, rpVars, hpVars, enVars, pgVars, cfVars, writes >>

\* lines 88-131: a WeiboHotScraper as constructed, over an empty output directory
InitDate ==
    /\ cacheFile = AbsentFile
    /\ max_retries = MaxRetries
    /\ RealtimeIdle
    /\ FetchIdle
    /\ delay \in Delays
    /\ sr_pc = "idle"
    /\ start_date = 0
    /\ end_date = 0
    /\ date_list = <<>>
    /\ idx = 0
    /\ stats = EmptyStats
    /\ files = [d \in 1..MaxDay |-> NoFile]
    /\ processed = <<>>
    /\ sr_sleeps = <<>>
    /\ outcomes = <<>>
    /\ sd_run = NoRun
    /\ SaveIdle
    /\ PureIdle

NextDate == ScrapeDate

SpecDate == InitDate /\ [][NextDate]_vars

(* --- the field classification of the two strategies (scrap.py 382-516, 767-790) --- *)
\* The text of a data fragment is a sequence of pieces: a metric marker
\* ("fire" for the flame sign, "read", "discuss", "original" for the words of
\* lines 390-396), a category keyword, "digits" or "other".  The keywords are
\* those of the table of lines 401-510 that the backup strategy knows, with
\* "tech", "edu" and "edu_org" of those it does not know, in table order;
\* the keyword "edu_org" contains the keyword "edu".
category_keywords ==
    << "star", "society", "entertainment", "sports", "tech", "game", "food", "finance",
       "edu", "edu_org" >>
Markers == {"fire", "read", "discuss", "original"}
Pieces == Markers \cup {category_keywords[k] : k \in 1..Len(category_keywords)}
             \cup {"digits", "other"}
Fragments == SeqsUpTo(Pieces, MaxPieces)

\* `word in text`
contains(text, word) ==
    \E k \in 1..Len(text) : text[k] = word \/ (word = "edu" /\ text[k] = "edu_org")
\* text.replace(word, "")
without(text, word) == LET other(x) == x # word IN SelectSeq(text, other)

\* what a fragment is taken for: the field, and its value, which is a text or
\* the number _extract_number makes of a text
Ignored == [field |-> "ignored", kind |-> "none", of |-> <<>>]
Metric(field, text, word) == [field |-> field, kind |-> "number", of |-> without(text, word)]
Category(text) == [field |-> "category", kind |-> "text", of |-> text]

\* lines 383-516: the branch of the primary strategy's loop body
classify_primary(text) ==
    IF contains(text, "fire") THEN Metric("heat", text, "fire")
    ELSE IF contains(text, "read") THEN Metric("reads", text, "read")
    ELSE IF contains(text, "discuss") THEN Metric("discussions", text, "discuss")
    ELSE IF contains(text, "original") THEN Metric("originals", text, "original")
    ELSE IF \E k \in 1..Len(category_keywords) : contains(text, category_keywords[k])
    THEN LET first == CHOOSE k \in 1..Len(category_keywords) :
                         /\ contains(text, category_keywords[k])
                         /\ \A j \in 1..(k - 1) : ~contains(text, category_keywords[j])
         IN  Category(<< category_keywords[first] >>)
    ELSE Ignored

\* lines 768-790: the branch of the backup strategy's loop body
classify_backup(text) ==
    IF \/ contains(text, "star")
       \/ contains(text, "society")
       \/ contains(text, "entertainment")
       \/ contains(text, "sports")
    THEN Category(text)
    ELSE IF contains(text, "fire") THEN Metric("heat", text, "fire")
    ELSE IF contains(text, "read") THEN Metric("reads", text, "read")
    ELSE IF contains(text, "discuss") THEN Metric("discussions", text, "discuss")
    ELSE IF contains(text, "original") THEN Metric("originals", text, "original")
    ELSE IF contains(text, "game") THEN Category(<< "game" >>)
    ELSE IF contains(text, "food") THEN Category(<< "food" >>)
    ELSE IF contains(text, "finance") THEN Category(<< "finance" >>)
    ELSE Ignored

\* the primary strategy meets the fragment
ClassifyPrimary ==
    /\ cf_primary = None
    /\ cf_primary' = Some(classify_primary(cf_text))
    /\ UNCHANGED << cf_text, cf_backup >>
    /\ UNCHANGED << rtVars, fpVars, srVars, svVars, rpVars, hpVars, enVars, pgVars, hdVars, writes >>

\* the backup strategy meets the fragment
ClassifyBackup ==
    /\ cf_backup = None
    /\ cf_backup' = Some(classify_backup(cf_text))
    /\ UNCHANGED << cf_text, cf_primary >>
    /\ UNCHANGED << rtVars, fpVars, srVars, svVars, rpVars, hpVars, enVars, pgVars, hdVars, writes >>

InitClassify ==
    /\ cacheFile = AbsentFile
    /\ max_retries = MaxRetries
    /\ RealtimeIdle
    /\ FetchIdle
    /\ RangeIdle
    /\ SaveIdle
    /\ ParseIdle
    /\ CleanupIdle
    /\ NumberIdle
    /\ PageIdle
    /\ DateIdle
    /\ writes = 0
    /\ cf_text \in Fragments
    /\ cf_primary = None
    /\ cf_backup = None

NextClassify ==
    \/ ClassifyPrimary
    \/ ClassifyBackup

SpecClassify == InitClassify /\ [][NextClassify]_vars

(* ------------------ properties of the realtime acquisition --------------- *)
\* the call has returned a list
Returned == pc = "done"
\* both acquisition strategies ran and neither produced entries
BothFailed == Returned /\ source \in {"fallback", "failed"}
\* the cache path held a record with a non-empty entry list when the call began
HadEntries ==
    /\ fileAtCall.kind = "record"
    /\ fileAtCall.hasData
    /\ fileAtCall.isList
    /\ fileAtCall.data # <<>>
ExpectedSteps ==
    (IF use_cache THEN <<"CACHE_CHECK">> ELSE <<>>) \o <<"BROWSER", "HTTP">>

\* C1 as stated: whenever both strategies failed and the cache path held a
\* record with a non-empty entry list, the call returns the first 50 of that
\* record's entries and not the empty list
C1_AsStated ==
    (BothFailed /\ HadEntries) =>
        (result = Take(fileAtCall.data, TopN) /\ result # <<>>)

\* C1 amended: a call with use_cache true that could load the record (the
\* file was readable and its timestamp, when present, is an ISO timestamp)
\* returns, when both strategies failed, the first 50 entries of the record,
\* however old it is, and never the empty list
C1_StaleCacheServed ==
    (BothFailed /\ HadEntries /\ use_cache /\ ~read_failed /\ fileAtCall.tsKind # "bad") =>
        /\ source = "fallback"
        /\ result = Take(fileAtCall.data, TopN)
        /\ result # <<>>

C1_Witness ==
    /\ Returned
    /\ source = "fallback"
    /\ HadEntries
    /\ fileAtCall.tsKind = "iso"
    /\ now - fileAtCall.ts > DayMinutes
    /\ Len(result) = TopN

\* C2: with use_cache true and a readable record holding entries and an ISO
\* timestamp, the freshness check computes the record's age; under one hour the
\* call returns the cached entries with no browser run and no HTTP request, at
\* one hour or more the cache is not served and the browser strategy is next
C2_FreshnessBoundary ==
    (use_cache /\ HadEntries /\ fileAtCall.tsKind = "iso" /\ ~read_failed
       /\ pc \notin {"idle", "load", "meta"}) =>
        /\ age_seen # None
        /\ \E t \in 0..now : age_seen[1] = t - fileAtCall.ts
        /\ age_seen[1] < FreshMinutes =>
              /\ Returned
              /\ source = "cache_hit"
              /\ result = Take(fileAtCall.data, TopN)
              /\ trace = <<"CACHE_CHECK">>
              /\ rt_requests = 0
        /\ age_seen[1] >= FreshMinutes =>
              /\ source # "cache_hit"
              /\ pc = "browser" \/ (Len(trace) >= 2 /\ trace[2] = "BROWSER")

C2_Witness ==
    /\ Returned
    /\ source = "cache_hit"
    /\ age_seen = Some(FreshMinutes - 1)
    /\ Len(result) = TopN

\* C3: the steps run in the order cache check, browser, HTTP, fallback/failed;
\* HTTP starts only after the browser strategy ran and produced no entries, HTTP
\* requests are issued only by the HTTP strategy, and a step that produced
\* entries is the last step of the call
C3_StepOrder ==
    /\ pc \in {"idle", "load"} => trace = <<>>
    /\ pc = "meta" => trace = <<"CACHE_CHECK">>
    /\ pc = "browser" => trace = SubSeq(ExpectedSteps, 1, Len(ExpectedSteps) - 2)
    /\ pc = "http" => trace = SubSeq(ExpectedSteps, 1, Len(ExpectedSteps) - 1)
    /\ pc \in {"http_loop", "fallback"} => trace = ExpectedSteps
    /\ rt_requests > 0 => (Len(trace) >= Len(ExpectedSteps) /\ SubSeq(trace, 1, Len(ExpectedSteps)) = ExpectedSteps)
    /\ save_ok # None => (Returned /\ source \in {"browser", "http"})
    /\ Returned =>
          /\ source = "cache_hit" => (trace = <<"CACHE_CHECK">> /\ rt_requests = 0)
          /\ source = "browser" =>
                (trace = SubSeq(ExpectedSteps, 1, Len(ExpectedSteps) - 1) /\ rt_requests = 0)
          /\ source = "http" => trace = ExpectedSteps
          /\ source = "fallback" => trace = ExpectedSteps \o <<"CACHE_FALLBACK">>
          /\ source = "failed" => trace = ExpectedSteps \o <<"FAILED">>
          /\ source \in {"cache_hit", "browser", "http", "fallback", "failed"}
          /\ source \in {"cache_hit", "browser", "http", "fallback"} <=> result # <<>>

C3_Witness ==
    /\ Returned
    /\ source = "http"
    /\ trace = <<"CACHE_CHECK", "BROWSER", "HTTP">>
    /\ rt_requests > 1

\* C4 as stated: when the call returns entries obtained by the browser or the
\* HTTP strategy, the cache file is a record whose data are the returned
\* entries and whose count is their number
C4_AsStated ==
    (Returned /\ source \in {"browser", "http"}) =>
        /\ cacheFile.kind = "record"
        /\ cacheFile.isList
        /\ cacheFile.data = result
        /\ cacheFile.count = Len(result)

\* C5 as stated: fetch_and_save never serves cached data, returns true exactly
\* when a fresh acquisition produced entries that are now in the output file,
\* and false otherwise
C5_AsStated ==
    (Returned /\ op = "fetch_and_save") =>
        /\ source \notin {"cache_hit", "fallback"}
        /\ fas_ret # None
        /\ fas_ret[1] <=> /\ source \in {"browser", "http"}
                          /\ result # <<>>
                          /\ cacheFile.kind = "record"
                          /\ cacheFile.data = result

\* C6 as stated: no exception leaves the call, and a call that found no cache
\* record and got no entries from either strategy returns the empty list
C6_AsStated ==
    /\ pc # "raised"
    /\ (BothFailed /\ (~use_cache \/ fileAtCall.kind = "absent")) => result = <<>>

\* C7: every list the call returns has at most 50 entries
C7_AtMostTopN ==
    Returned => Len(result) <= TopN

C7_Witness ==
    /\ Returned
    /\ source = "fallback"
    /\ Len(fileAtCall.data) > TopN
    /\ Len(result) = TopN

(* ------------------------ properties of fetch_page ----------------------- *)
\* every request of the call so far failed in the transport
AllTransport == fp_log # <<>> /\ \A k \in 1..Len(fp_log) : fp_log[k] = "transport"

\* C8: a fetch_page call with max_retries = n >= 1 whose every request fails in
\* the transport issues exactly n requests, pauses after each failed attempt
\* but the last for 1, 2, 4, ... seconds (1 then 2 for n = 3), and returns
\* absent; it never issues more than n requests on the way.
C8_ExactRetries ==
    /\ (fp_pc # "idle" /\ AllTransport) => fp_requests <= max_retries
    /\ (fp_pc = "done" /\ max_retries >= 1 /\ AllTransport) =>
          /\ fp_requests = max_retries
          /\ fp_result = None
          /\ Len(fp_sleeps) = max_retries - 1
          /\ \A k \in 1..Len(fp_sleeps) :
                fp_sleeps[k] = IF k = 1 THEN 1 ELSE 2 * fp_sleeps[k - 1]
          /\ max_retries = 3 => fp_sleeps = << 1, 2 >>

\* three attempts all failed in the transport and the call returned
C8_Witness ==
    /\ fp_pc = "done"
    /\ max_retries = 3
    /\ AllTransport
    /\ fp_requests = 3
    /\ fp_sleeps = << 1, 2 >>
    /\ fp_result = None

(* ----------------------- properties of scrape_range ---------------------- *)
\* both arguments are well-formed dates and the range is not empty
ValidRange == start_date >= 1 /\ end_date >= 1 /\ start_date <= end_date

\* C9: for valid dates start <= end the returned statistics have total_dates
\* equal to the number of days from start to end inclusive, successful + failed
\* = total_dates, and failed_dates holds exactly `failed` dates without
\* duplicates; at every point of the run successful + failed is the number of
\* dates processed so far.
C9_AsStated ==
    /\ (sr_pc = "done" /\ ValidRange) =>
          /\ stats.total_dates = end_date - start_date + 1
          /\ stats.successful + stats.failed = stats.total_dates
          /\ Len(stats.failed_dates) = stats.failed
          /\ \A j, k \in 1..Len(stats.failed_dates) :
                j # k => stats.failed_dates[j] # stats.failed_dates[k]
    /\ sr_pc \in {"loop", "done"} => stats.successful + stats.failed = Len(processed)
    /\ sr_pc = "fetching" => stats.successful + stats.failed = Len(processed) - 1

\* C10: a failure or an exception on one date is recorded as the failure of
\* that date and never stops the run: when scrape_range returns for a valid
\* range, every date of the range has been processed exactly once, in
\* ascending order, and each date is either counted successful or listed in
\* failed_dates.
C10_AsStated ==
    (sr_pc = "done" /\ ValidRange) =>
        /\ processed = [k \in 1..(end_date - start_date + 1) |-> start_date + k - 1]
        /\ \A k \in 1..Len(processed) :
              \/ \E j \in 1..Len(stats.failed_dates) : stats.failed_dates[j] = processed[k]
              \/ files[processed[k]].kind = "snapshot"

\* the days of the requested range
RangeDays == IF start_date <= end_date THEN start_date..end_date ELSE {}
\* the processed dates whose fetch was absent, whose save failed or whose processing raised
FailedDays == {processed[k] : k \in {j \in 1..Len(outcomes) : outcomes[j] # "saved"}}
\* the elements of a sequence
Range(seq) == {seq[k] : k \in 1..Len(seq)}

\* C11: starting from an empty output directory, for any range of well-formed
\* dates and any per-date outcomes, when scrape_range returns failed_dates is
\* the ascending list of exactly the dates whose fetch was absent, whose save
\* failed or whose processing raised, a snapshot file exists for exactly the
\* other dates of the range, and a date whose page yields no entries is
\* successful with a file of count 0.
C11_AsStated ==
    (sr_pc = "done" /\ start_date >= 1 /\ end_date >= 1) =>
        /\ Range(stats.failed_dates) = FailedDays
        /\ \A j, k \in 1..Len(stats.failed_dates) :
              j < k => stats.failed_dates[j] < stats.failed_dates[k]
        /\ \A d \in RangeDays :
              files[d].kind = "snapshot" <=> d \notin Range(stats.failed_dates)
        /\ \A d \in RangeDays :
              files[d].kind = "snapshot" =>
                  /\ files[d].date = d
                  /\ files[d].count = Len(files[d].data)
        /\ stats.successful = Cardinality({d \in RangeDays : files[d].kind = "snapshot"})

(* ------------------------- properties of save_data ----------------------- *)
\* C12: a save_data call that succeeds leaves for its date exactly the file
\* of its own arguments, whatever file the date had before (nothing of the
\* earlier content is merged or appended), and a successful call that repeats
\* the arguments of the successful call just before it leaves every file as
\* that call left it.
C12_IdempotentOverwrite ==
    sv_ret = Some(TRUE) =>
        /\ files[sv_date].kind = "snapshot"
        /\ files[sv_date].data = sv_data
        /\ files[sv_date].count = Len(sv_data)
        /\ sv_same => files = sv_before

\* the same non-empty list has been written twice for one date
C12_Witness ==
    /\ sv_ret = Some(TRUE)
    /\ sv_same
    /\ Len(sv_data) = MaxEntries
    /\ sv_before[sv_date].kind = "snapshot"

\* C13: a successful save_data(entries, d) writes exactly the file of d, with
\* date d and count equal to the length of its data, and leaves the file of
\* every other date unchanged; a save that fails, a malformed date included,
\* returns false and changes no file.
C13_AsStated ==
    /\ sv_ret = Some(TRUE) =>
          /\ sv_date >= 1
          /\ files[sv_date].kind = "snapshot"
          /\ files[sv_date].date = sv_date
          /\ files[sv_date].data = sv_data
          /\ files[sv_date].count = Len(files[sv_date].data)
          /\ \A d \in DOMAIN files : d # sv_date => files[d] = sv_before[d]
    /\ sv_ret = Some(FALSE) => files = sv_before
    /\ (sv_ret # None /\ sv_date = 0) => sv_ret = Some(FALSE)

(* --------------------- properties of the subprocess bridge ---------------- *)
\* the browser step of the call is over
BrowserDone == \E k \in 1..Len(trace) : trace[k] = "BROWSER"

\* C14: in subprocess mode, once fetch_realtime_top50_with_playwright has
\* returned, the temporary result file it created no longer exists, whatever
\* the outcome of the child process.
C14_AsStated == (BrowserDone /\ is_streamlit) => tmp_file # "exists"

\* C15: in subprocess mode a non-zero exit code, a timeout of the child, or a
\* missing or malformed payload makes the browser strategy return no entries
\* without raising: nothing is returned or saved as the browser's result and
\* the call goes on to the HTTP strategy.
C15_SubprocessFailure ==
    (BrowserDone /\ is_streamlit /\ child \in {"nonzero", "timeout", "missing", "malformed"}) =>
        /\ source # "browser"
        /\ pc = "http" \/ (Len(trace) > 1 /\ \E k \in 2..Len(trace) :
                                               trace[k - 1] = "BROWSER" /\ trace[k] = "HTTP")
        /\ (pc = "http" /\ calls = 1) => (cacheFile = fileAtCall /\ result = <<>>)

\* the child timed out and the HTTP strategy then delivered the entries
C15_Witness ==
    /\ is_streamlit
    /\ child = "timeout"
    /\ Returned
    /\ source = "http"
    /\ result # <<>>

(* -------------------- properties of parse_realtime_page ------------------ *)
\* the titles the page offers, in the order the page is read: the table rows
\* that count as entries, then the links
Candidates(page) ==
    LET kept == SelectSeq(page.rows, RowKept)
    IN [k \in 1..Len(kept) |-> kept[k].title] \o page.links
\* where a title first occurs among the candidates of the page
FirstOccurrence(page, t) ==
    CHOOSE k \in 1..Len(Candidates(page)) :
        /\ Candidates(page)[k] = t
        /\ \A j \in 1..(k - 1) : Candidates(page)[j] # t

ValidCount == Len(SelectSeq(hp_raw, IsValid))
HeatedCount == Len(SelectSeq(SelectSeq(hp_raw, IsValid), HasHeat))

Nearest(r, p, q) == 2 * (r * q - p) <= q /\ 2 * (p - r * q) <= q

\* C18: _extract_number returns the parsed decimal times 10,000 for a text
\* with the hundred-million marker, the parsed decimal itself for a text with
\* the ten-thousand marker (and no hundred-million marker), the parsed number
\* divided by 10,000 for a text with no marker, each rounded to 2 decimals
\* (1.50 with yi gives 15000.0, 855.15 with wan gives 855.15, bare 8210 gives
\* 0.82); it returns 0.0 for a text with no number or an unparseable one, and
\* never a negative value.
C18_UnitNormalization ==
    en_out # None =>
        LET r == en_out[1]
            n == en_text.milli
        IN  /\ r >= 0
            /\ en_text.kind # "number" => r = 0
            /\ (en_text.kind = "number" /\ en_text.yi) => r = n * 1000
            /\ (en_text.kind = "number" /\ ~en_text.yi /\ en_text.wan) => Nearest(r, n, 10)
            /\ (en_text.kind = "number" /\ ~en_text.yi /\ ~en_text.wan) => Nearest(r, n, 100000)
            /\ en_text = Text("number", 1500, TRUE, FALSE, FALSE) => r = 1500000
            /\ en_text = Text("number", 855150, FALSE, TRUE, FALSE) => r = 85515
            /\ en_text = Text("number", 8210000, FALSE, FALSE, FALSE) => r = 82

\* the bare number 8210 has been converted to 0.82
C18_Witness ==
    /\ en_text = Text("number", 8210000, FALSE, FALSE, FALSE)
    /\ en_out = Some(82)

(* ---------------- properties of fetch_page: invalid content -------------- *)
\* every request of the call so far was answered with content fetch_page rejects
AllInvalid == fp_log # <<>> /\ \A k \in 1..Len(fp_log) : fp_log[k] = "invalid"

\* C19: a fetch_page call with max_retries = n >= 1 whose every request is
\* answered by a 200 response with a body under the minimum size behaves as
\* under transport failures: n requests, a pause of 2^attempt seconds after
\* each attempt but the last, then absent.
C19_AsStated ==
    (fp_pc = "done" /\ max_retries >= 1 /\ AllInvalid) =>
        /\ fp_requests = max_retries
        /\ fp_result = None
        /\ Len(fp_sleeps) = max_retries - 1
        /\ \A k \in 1..Len(fp_sleeps) :
              fp_sleeps[k] = IF k = 1 THEN 1 ELSE 2 * fp_sleeps[k - 1]

(* --------------- properties of fetch_page: content validity -------------- *)
\* the latest request was answered with status 200 and a body over the minimum size
LargeBody == fp_resp.kind = "response" /\ fp_resp.status200 /\ fp_resp.len > MinBodyLen

\* C20: on a 200 response whose body exceeds the minimum size, fetch_page
\* returns the page when it contains a structural marker, not-found text or
\* not; returns the page when not-found text comes with at least 10 anchor
\* tags; and returns absent when not-found text comes with fewer than 10
\* anchor tags and no structural marker.
C20_ContentValidity ==
    LargeBody =>
        /\ fp_pc = "done"
        /\ fp_resp.features => fp_result = Some(fp_resp)
        /\ (fp_resp.notfound /\ fp_resp.anchors >= 10) => fp_result = Some(fp_resp)
        /\ (fp_resp.notfound /\ fp_resp.anchors < 10 /\ ~fp_resp.features) => fp_result = None

\* a page with a structural marker, not-found text and no anchor has been returned
C20_Witness ==
    /\ fp_resp = Response(TRUE, MinBodyLen + 1, TRUE, TRUE, 0)
    /\ fp_pc = "done"
    /\ fp_result = Some(fp_resp)

(* ------------------------ properties of scrape_date ---------------------- *)
\* a scrape_date call has returned or raised, and which date it was for
DateDone == sr_pc \in {"loop", "done"} /\ sd_run.steps # <<>>
LastDate == processed[Len(processed)]
LastOutcome == outcomes[Len(outcomes)]

\* C21: scrape_date runs fetch, pause of delay, parse, persist in that order;
\* when the fetch is absent it returns false having neither paused, parsed nor
\* written a file; otherwise it persists the parsed list, empty or not, and
\* returns what save_data returned. scrape_range pauses for half the delay
\* after every date except the last.
C21_AsStated ==
    DateDone =>
        /\ IF LastOutcome = "absent"
           THEN /\ sd_run.steps = <<"fetch">>
                /\ sd_run.ret = Some(FALSE)
                /\ sd_run.parsed = None
                /\ files[LastDate] = sd_run.before
           ELSE /\ sd_run.steps = <<"fetch", "sleep", "parse", "save">>
                /\ sd_run.parsed # None
                /\ sd_run.ret = Some(LastOutcome = "saved")
                /\ sd_run.ret = Some(TRUE) =>
                       files[LastDate] = Snapshot(LastDate, sd_run.parsed[1])
        /\ sd_run.between =
              (IF Len(processed) < Len(date_list) THEN Some(delay \div 2) ELSE None)

(* ---------------------- properties of the cache file --------------------- *)
\* C22: a call of fetch_realtime_top50 that serves a cache hit, serves stale
\* cache as fallback or ends with no data has not called save_to_file and
\* leaves the cache file as it found it; the file is written only by a call
\* whose browser or HTTP strategy returned a non-empty list, which is the list
\* the call returns.
C22_CacheFrame ==
    /\ (pc = "done" /\ source \in {"cache_hit", "fallback", "failed"}) =>
          /\ cacheFile = fileAtCall
          /\ save_ok = None
    /\ (calls > 0 /\ (save_ok # None \/ cacheFile # fileAtCall)) =>
          /\ pc = "done"
          /\ source \in {"browser", "http"}
          /\ result # <<>>
          /\ save_ok = Some(TRUE) => cacheFile.data = result

\* a stale record was served as fallback after both strategies ran, and the
\* file is still that record
C22_Witness ==
    /\ pc = "done"
    /\ source = "fallback"
    /\ trace = <<"CACHE_CHECK", "BROWSER", "HTTP", "CACHE_FALLBACK">>
    /\ rt_requests > 0
    /\ cacheFile.kind = "record"
    /\ cacheFile = fileAtCall

(* ------------------- properties of fetch_realtime_page ------------------- *)
\* the place of an endpoint in the priority order
Priority(u) == CHOOSE i \in 1..Len(urls_to_try) : urls_to_try[i] = u
\* the body holds the words of the visitor verification, in any case
VisitorPage(resp) == {"visitor", "Visitor"} \cap resp.has # {} /\ "passport" \in resp.has
\* the body holds a ranking marker
RankingMarker(resp) ==
    \/ "pl_top_realtimehot" \in resp.has
    \/ "td-02" \in resp.has
    \/ {"resou", "paihang"} \subseteq resp.has
\* a response that passes the realtime validity check
PassesRealtimeCheck(resp) ==
    /\ resp.kind = "response"
    /\ resp.status200
    /\ ~resp.redirected
    /\ resp.len >= MinRealtimeLen
    /\ ~VisitorPage(resp)
    /\ RankingMarker(resp)

\* C23: fetch_realtime_page takes the endpoints in the order summary page,
\* hot-search page, front page and returns the first response that passes the
\* validity check: a request's page is returned exactly when it passes, no
\* request follows a returned page, and with no passing response the call
\* returns absent. Every page returned has at least 5000 characters, was not
\* redirected to the visitor verification, does not contain it, and holds a
\* ranking marker.
C23_FirstValidPage ==
    /\ frp_log # <<>> =>
          frp_log[Len(frp_log)].returned = PassesRealtimeCheck(frp_resp)
    /\ \A k \in 1..(Len(frp_log) - 1) :
          /\ ~frp_log[k].returned
          /\ Priority(frp_log[k].url) <= Priority(frp_log[k + 1].url)
    /\ frp_result # None =>
          /\ frp_pc = "done"
          /\ frp_result = Some(frp_resp)
          /\ frp_log[Len(frp_log)].returned
          /\ frp_resp.len >= MinRealtimeLen
          /\ ~frp_resp.redirected
          /\ ~VisitorPage(frp_resp)
          /\ RankingMarker(frp_resp)
    /\ (frp_pc = "done" /\ frp_result = None) =>
          \A k \in 1..Len(frp_log) : ~frp_log[k].returned
    /\ (frp_pc = "loop" /\ frp_log # <<>>) => ~frp_log[Len(frp_log)].returned

\* the front page was returned after the two endpoints before it had failed
C23_Witness ==
    /\ frp_pc = "done"
    /\ frp_result # None
    /\ Len(frp_log) >= 3
    /\ frp_log[1].url = "summary"
    /\ frp_log[Len(frp_log)].url = "front"
    /\ "resou" \in frp_resp.has

(* ------------------------- properties of parse_page ---------------------- *)
\* parse_page ran in the scrape_date call
Parsed == hd_parse # None

\* C24: parse_page runs the backup strategy exactly when the primary strategy
\* produced no entry and returns the backup's entries then, the primary ones
\* otherwise; when the backup produces none either, scrape_date still calls
\* save_data with the empty list: unless the write fails the date has a
\* snapshot with an empty entry list and count 0 and the call reports success.
C24_BackupOnEmpty ==
    Parsed =>
        /\ (hd_parse[1].backup # None) = (hd_parse[1].primary = <<>>)
        /\ hd_parse[1].items =
              (IF hd_parse[1].primary = <<>> THEN hd_parse[1].backup[1] ELSE hd_parse[1].primary)
        /\ hd_out \in {"saved", "save_failed"}
        /\ (hd_parse[1].items = <<>> /\ hd_out = "saved") =>
              /\ hd_parse[1].backup = Some(<<>>)
              /\ files[hd_date] = Snapshot(hd_date, <<>>)
              /\ files[hd_date].count = 0
        /\ hd_out = "saved" => files[hd_date] = Snapshot(hd_date, hd_parse[1].items)

\* both strategies found nothing on a page that has elements of both kinds,
\* and the date was saved with an empty list
C24_Witness ==
    /\ Parsed
    /\ hd_fetched[1].anchors # <<>>
    /\ hd_fetched[1].containers # <<>>
    /\ hd_parse[1].primary = <<>>
    /\ hd_parse[1].backup = Some(<<>>)
    /\ hd_out = "saved"
    /\ files[hd_date].kind = "snapshot"
    /\ files[hd_date].count = 0

\* the elements the strategy that produced the returned list went through
ElementsUsed ==
    IF hd_parse[1].backup = None
    THEN SelectSeq(hd_fetched[1].anchors, is_hot_tag)
    ELSE hd_fetched[1].containers
\* an element with a rank of at least 1 and a title
WellFormed(e) == e.h2 /\ e.flex /\ e.rank >= 1 /\ e.title.len > 0
\* how many elements of the sequence carry the rank and the title
Occurrences(elements, r, t) ==
    Cardinality({k \in 1..Len(elements) :
                    WellFormed(elements[k]) /\ elements[k].rank = r /\ elements[k].title = t})

\* C26: every entry parse_page returns, from the primary or from the backup
\* strategy, has rank >= 1 and a non-empty title, and an element of rank 0 or
\* of empty title is passed over without ending the extraction: each
\* well-formed element of the strategy used, before or after such an element,
\* has its entry in the list, once per occurrence.
C26_ValidEntriesOnly ==
    Parsed =>
        LET items == hd_parse[1].items
        IN  /\ \A k \in 1..Len(items) :
                  /\ items[k].rank >= 1
                  /\ items[k].title.len > 0
                  /\ items[k].date = hd_date
            /\ \A r \in 0..MaxRank, t \in {Title(n) : n \in 1..MaxRank} \cup {EmptyTitle} :
                  Cardinality({k \in 1..Len(items) : items[k].rank = r /\ items[k].title = t})
                      = Occurrences(ElementsUsed, r, t)

\* an element without rank stood before a well-formed one, which was extracted
C26_Witness ==
    /\ Parsed
    /\ Len(hd_fetched[1].anchors) = 2
    /\ hd_fetched[1].anchors[1] = Element(TRUE, TRUE, 0, Title(1))
    /\ WellFormed(hd_fetched[1].anchors[2])
    /\ Len(hd_parse[1].items) = 1
    /\ hd_parse[1].backup = None

(* ------------------ properties of the field classification --------------- *)
\* C25: the backup strategy classifies a fragment as the primary strategy
\* does: whatever its text, both assign it to the same field (category, heat,
\* reads, discussions, originals, or none) with the same value, and a category
\* is the first keyword of the table, in table order, that the text contains.
C25_AsStated ==
    (cf_primary # None /\ cf_backup # None) =>
        /\ cf_primary = cf_backup
        /\ cf_primary[1].field = "category" =>
              \E k \in 1..Len(category_keywords) :
                 /\ cf_primary[1].of = << category_keywords[k] >>
                 /\ contains(cf_text, category_keywords[k])
                 /\ \A j \in 1..(k - 1) : ~contains(cf_text, category_keywords[j])

(* ------------------- properties of the shared cache file ----------------- *)
\* C27: when fetch_realtime_top50 serves a cache hit while another
\* acquisition call overwrites the cache file, the entries returned and the
\* timestamp of the freshness decision come from the same cache record: the
\* entries are never those of an older record judged fresh by the timestamp
\* of a newer one.
C27_AsStated ==
    (pc = "done" /\ source = "cache_hit") =>
        /\ data_rec = meta_rec
        /\ result = Take(meta_rec[1].data, TopN)

(* ---------------------- termination of the realtime call ----------------- *)
\* a call of fetch_realtime_top50 is in progress
InCall == pc \notin {"idle", "done", "raised"}
\* the browser-strategy attempts of the call
BrowserAttempts == Cardinality({k \in 1..Len(trace) : trace[k] = "BROWSER"})

\* C28: every call of fetch_realtime_top50 comes to an end by returning a
\* list, of entries or empty, having made at most one browser-strategy
\* attempt and at most 3 x max_retries HTTP requests.
C28_AsStated ==
    /\ [](BrowserAttempts <= 1 /\ rt_requests <= Len(urls_to_try) * max_retries)
    /\ InCall ~> pc = "done"

(* ------------------ the request budget of fetch_page --------------------- *)
\* the attempts of the call that ended as `how`
Attempts(how) == {k \in 1..Len(fp_log) : fp_log[k] = how}

\* C29: in every execution fetch_page issues at most max_retries requests,
\* none when max_retries is 0; an exception other than a transport error and a
\* confirmed not-found page end the call at once: the attempt is the last one,
\* the call returns absent, and no pause follows it (pauses follow transport
\* errors only, the last possible attempt excepted).
C29_RequestBudget ==
    /\ fp_requests <= max_retries
    /\ fp_requests = Len(fp_log)
    /\ \A k \in Attempts("other") \cup Attempts("absent") :
          /\ k = Len(fp_log)
          /\ fp_pc = "done"
          /\ fp_result = None
    /\ Len(fp_sleeps) = Cardinality({k \in Attempts("transport") : k < max_retries})

\* a transport error with its pause, then a confirmed not-found page: the
\* call is over after two of its three attempts
C29_Witness ==
    /\ max_retries = 3
    /\ fp_pc = "done"
    /\ fp_log = << "transport", "absent" >>
    /\ fp_requests = 2
    /\ fp_sleeps = << 1 >>
    /\ fp_result = None

(* ------------------ which cache records the call serves ------------------ *)
\* a call has gone past its cache check
PastCacheCheck == use_cache /\ pc \notin {"idle", "load", "meta"}

\* C30: the cache check serves a record only if it holds a non-empty list of
\* entries and a parseable timestamp less than one hour old; a record with an
\* empty list or an unparseable timestamp counts as no cache at all, it is
\* served neither as a hit nor as fallback; a record without a timestamp
\* is not served as a hit, only as fallback once the browser and the
\* HTTP strategy have been attempted.
C30_ServedRecords ==
    /\ (Returned /\ source = "cache_hit") =>
          /\ HadEntries
          /\ fileAtCall.tsKind = "iso"
          /\ age_seen # None
          /\ age_seen[1] < FreshMinutes
          /\ \E t \in 0..now : age_seen[1] = t - fileAtCall.ts
          /\ result = Take(fileAtCall.data, TopN)
    /\ (PastCacheCheck /\ fileAtCall.kind = "record"
          /\ (fileAtCall.tsKind = "bad" \/ (fileAtCall.isList /\ fileAtCall.data = <<>>))) =>
          /\ cached_data = None
          /\ source \notin {"cache_hit", "fallback"}
          /\ Returned => (source = "failed" <=> result = <<>>)
    /\ (PastCacheCheck /\ fileAtCall.kind = "record" /\ fileAtCall.tsKind = "none") =>
          /\ source # "cache_hit"
          /\ source = "fallback" =>
                trace = <<"CACHE_CHECK", "BROWSER", "HTTP", "CACHE_FALLBACK">>

\* a record with entries and an unparseable timestamp was at the cache path,
\* both strategies failed, and the call returned the empty list
C30_Witness ==
    /\ Returned
    /\ use_cache
    /\ HadEntries
    /\ fileAtCall.tsKind = "bad"
    /\ source = "failed"
    /\ result = <<>>
    /\ trace = <<"CACHE_CHECK", "BROWSER", "HTTP", "FAILED">>
====
